---- MODULE Spec2Model ----
(***************************************************************************)
(* A model of ai-linter's consistency check between markdown documents and *)
(* the resource files of a project                                         *)
(* (src/validators/unreferenced_file_validator.py).                        *)
(*                                                                         *)
(* A string is a sequence of one-character strings, so that startswith,   *)
(* endswith, lstrip and split are computed character by character as       *)
(* Python computes them.  A pathlib path is the sequence of its segments   *)
(* (each a string); an absolute path lists its segments below "/".         *)
(* The file system holds no symbolic link.                                 *)
(***************************************************************************)
EXTENDS Integers, Sequences, FiniteSets, TLC

(***************************************************************************)
(* Strings                                                                 *)
(***************************************************************************)
Slash == "/"
DotSeg == <<".">>
DotDotSeg == <<".", ".">>
MdSuffix == <<".", "m", "d">>
HttpPrefix == <<"h", "t", "t", "p", ":", "/", "/">>
HttpsPrefix == <<"h", "t", "t", "p", "s", ":", "/", "/">>
MailtoPrefix == <<"m", "a", "i", "l", "t", "o", ":">>
DataPrefix == <<"d", "a", "t", "a", ":">>

\* str.startswith(prefix)
StartsWith(s, prefix) ==
    /\ Len(prefix) <= Len(s)
    /\ SubSeq(s, 1, Len(prefix)) = prefix

\* str.endswith(suffix)
EndsWith(s, suffix) ==
    /\ Len(suffix) <= Len(s)
    /\ SubSeq(s, Len(s) - Len(suffix) + 1, Len(s)) = suffix

\* The recursive definitions below are functions: TLC computes the argument
\* of a function before it applies it.
String == Seq(STRING)

\* str.lstrip("/")
LStrip[s \in String] ==
    IF s # <<>> /\ Head(s) = Slash THEN LStrip[Tail(s)] ELSE s

LStripSlash(s) == LStrip[s]

\* str.split(sep): the pieces between the occurrences of one character
SplitAcc[s \in String, sep \in STRING, cur \in String, acc \in Seq(String)] ==
    IF s = <<>> THEN Append(acc, cur)
    ELSE IF Head(s) = sep THEN SplitAcc[Tail(s), sep, <<>>, Append(acc, cur)]
    ELSE SplitAcc[Tail(s), sep, Append(cur, Head(s)), acc]

Split(s, sep) == SplitAcc[s, sep, <<>>, <<>>]

(***************************************************************************)
(* pathlib                                                                 *)
(***************************************************************************)
\* The segments pathlib keeps of a relative path string: the pieces between
\* slashes, without the empty ones and without "." ("..": kept).
KeepSegments[pieces \in Seq(String)] ==
    IF pieces = <<>> THEN <<>>
    ELSE IF Head(pieces) = <<>> \/ Head(pieces) = DotSeg
         THEN KeepSegments[Tail(pieces)]
         ELSE <<Head(pieces)>> \o KeepSegments[Tail(pieces)]

PathParts(s) == KeepSegments[Split(s, Slash)]

\* base / s, for a string s that does not start with "/"
PathJoin(base, s) == base \o PathParts(s)

\* path.parent ("/" is its own parent)
Parent(path) == IF path = <<>> THEN <<>> ELSE SubSeq(path, 1, Len(path) - 1)

\* Path.resolve() of an absolute path on a file system without symbolic
\* links: ".." removes the segment before it, and stays at "/".
ResolveAcc[done \in Seq(String), rest \in Seq(String)] ==
    IF rest = <<>> THEN done
    ELSE IF Head(rest) = DotDotSeg THEN ResolveAcc[Parent(done), Tail(rest)]
    ELSE ResolveAcc[Append(done, Head(rest)), Tail(rest)]

Resolve(path) == ResolveAcc[<<>>, path]

\* Whether path.relative_to(base) returns (it raises ValueError otherwise):
\* a comparison of segments, ".." being a segment like any other.
IsRelativeTo(path, base) ==
    /\ Len(base) <= Len(path)
    /\ SubSeq(path, 1, Len(base)) = base

RelativeTo(path, base) == SubSeq(path, Len(base) + 1, Len(path))

\* str(path) of a relative path: its segments joined by "/", "." when it has none
Join[segs \in Seq(String)] ==
    IF Len(segs) = 1 THEN Head(segs)
    ELSE Head(segs) \o <<Slash>> \o Join[Tail(segs)]

JoinSegments(segs) == Join[segs]

PathStr(rel) == IF rel = <<>> THEN DotSeg ELSE JoinSegments(rel)

(***************************************************************************)
(* The names used by the project under validation                          *)
(***************************************************************************)
Seg_p == <<"p">>
Seg_assets == <<"a", "s", "s", "e", "t", "s">>
Seg_references == <<"r", "e", "f", "e", "r", "e", "n", "c", "e", "s">>
Seg_scripts == <<"s", "c", "r", "i", "p", "t", "s">>
Seg_docs == <<"d", "o", "c", "s">>
Seg_sub == <<"s", "u", "b">>
Seg_dir == <<"d", "i", "r">>
Seg_x == <<"x">>
Seg_README_md == <<"R", "E", "A", "D", "M", "E", ".", "m", "d">>
Seg_guide_md == <<"g", "u", "i", "d", "e", ".", "m", "d">>
Seg_nested_md == <<"n", "e", "s", "t", "e", "d", ".", "m", "d">>
Seg_deep_md == <<"d", "e", "e", "p", ".", "m", "d">>
Seg_file_txt == <<"f", "i", "l", "e", ".", "t", "x", "t">>
Seg_test_txt == <<"t", "e", "s", "t", ".", "t", "x", "t">>
Seg_git == <<".", "g", "i", "t">>
Seg_pycache == <<"_", "_", "p", "y", "c", "a", "c", "h", "e", "_", "_">>
Seg_plain_git == <<"g", "i", "t">>
Seg_scripts_git == <<"s", "c", "r", "i", "p", "t", "s", "-", "g", "i", "t">>
Seg_nonexistent_md == <<"n", "o", "n", "e", "x", "i", "s", "t", "e", "n", "t", ".", "m", "d">>

(***************************************************************************)
(* The project on disk: /p is the project root.                            *)
(*   /p/README.md, /p/docs/guide.md, /p/docs/sub/guide.md  entry documents *)
(*   /p/docs/nested.md   references deep.md and ../assets/file.txt         *)
(*   /p/docs/deep.md     references nested.md and ../references/test.txt   *)
(*   /p/assets/file.txt, /p/references/test.txt            resource files  *)
(*   /p/references/.git/file.txt          a file of an ignored directory   *)
(*   /p/scripts-git/file.txt     a file of a directory named like one      *)
(***************************************************************************)
ProjectDir == <<Seg_p>>

ReadmeMd == <<Seg_p, Seg_README_md>>
DocsGuideMd == <<Seg_p, Seg_docs, Seg_guide_md>>
SubGuideMd == <<Seg_p, Seg_docs, Seg_sub, Seg_guide_md>>
NestedMd == <<Seg_p, Seg_docs, Seg_nested_md>>
DeepMd == <<Seg_p, Seg_docs, Seg_deep_md>>
AssetsFile == <<Seg_p, Seg_assets, Seg_file_txt>>
ReferencesTest == <<Seg_p, Seg_references, Seg_test_txt>>
GitFile == <<Seg_p, Seg_references, Seg_git, Seg_file_txt>>
ScriptsGitFile == <<Seg_p, Seg_scripts_git, Seg_file_txt>>

EntryFiles == {ReadmeMd, DocsGuideMd, SubGuideMd}
MarkdownFiles == EntryFiles \cup {NestedMd, DeepMd}
Files == MarkdownFiles \cup {AssetsFile, ReferencesTest, GitFile, ScriptsGitFile}

\* A directory exists when a file lies below it.
IsDir(path) == \E f \in Files : Len(path) < Len(f) /\ SubSeq(f, 1, Len(path)) = path

\* The file system's lookup of an absolute path, segment by segment: ".."
\* goes to the parent of the directory reached so far, and a segment below
\* something that is no directory is not found.
NoEnt == <<<<"?">>>>

LookupFrom[cur \in Seq(String), rest \in Seq(String)] ==
    IF rest = <<>> THEN cur
    ELSE IF ~IsDir(cur) THEN NoEnt
    ELSE IF Head(rest) = DotDotSeg THEN LookupFrom[Parent(cur), Tail(rest)]
    ELSE LookupFrom[Append(cur, Head(rest)), Tail(rest)]

Lookup(path) == LookupFrom[<<>>, path]

\* path.exists() and path.is_file()
IsFile(path) == Lookup(path) \in Files

\* path.exists() and path.is_dir()
IsDirectory(path) == LET t == Lookup(path) IN t # NoEnt /\ IsDir(t)

\* path.rglob("*"), kept to the entries that are files
RGlobFiles(dir) == {f \in Files : Len(dir) < Len(f) /\ SubSeq(f, 1, Len(dir)) = dir}

(***************************************************************************)
(* Markdown content: the set of the constructs of a document that may      *)
(* carry a reference, each with its kind and its target string.            *)
(*   link        [text](target) or ![alt](target)                          *)
(*   img         <img src="target">                                        *)
(*   attachment  <attachment filePath="target">                            *)
(*   coderef     source: target, file: target or path: target              *)
(*   backtick    `target`                                                  *)
(***************************************************************************)
Link(target) == [kind |-> "link", target |-> target]

Str(segs) == JoinSegments(segs)
Abs(segs) == <<Slash>> \o JoinSegments(segs)

RefAssetsFile == Str(<<Seg_assets, Seg_file_txt>>)
RefDotAssetsFile == Str(<<DotSeg, Seg_assets, Seg_file_txt>>)
RefDirUpAssetsFile == Str(<<Seg_dir, DotDotSeg, Seg_assets, Seg_file_txt>>)
RefAbsAssetsFile == Abs(<<Seg_assets, Seg_file_txt>>)
RefAbsDotAssetsFile == Abs(<<DotSeg, Seg_assets, Seg_file_txt>>)
RefAbsDirUpAssetsFile == Abs(<<Seg_dir, DotDotSeg, Seg_assets, Seg_file_txt>>)
RefAbsUpX == Abs(<<DotDotSeg, Seg_x>>)
RefUpUpAssetsFile == Str(<<DotDotSeg, DotDotSeg, Seg_assets, Seg_file_txt>>)
RefUpAssetsFile == Str(<<DotDotSeg, Seg_assets, Seg_file_txt>>)
RefReferencesTest == Str(<<Seg_references, Seg_test_txt>>)
RefAbsReferencesTest == Abs(<<Seg_references, Seg_test_txt>>)
RefUpReferencesTest == Str(<<DotDotSeg, Seg_references, Seg_test_txt>>)
RefDocsNested == Str(<<Seg_docs, Seg_nested_md>>)
RefDotDocsNested == Str(<<DotSeg, Seg_docs, Seg_nested_md>>)
RefNested == Str(<<Seg_nested_md>>)
RefDeep == Str(<<Seg_deep_md>>)
RefReadme == Str(<<Seg_README_md>>)
RefNonexistent == Str(<<Seg_nonexistent_md>>)

\* The constructs an entry document is made of.
EntryPool ==
    { Link(RefAssetsFile), Link(RefDotAssetsFile), Link(RefDirUpAssetsFile),
      Link(RefAbsAssetsFile), Link(RefAbsDotAssetsFile),
      Link(RefAbsDirUpAssetsFile), Link(RefAbsUpX),
      Link(RefUpUpAssetsFile), Link(RefAbsReferencesTest),
      Link(RefUpReferencesTest), Link(RefDocsNested), Link(RefDotDocsNested),
      Link(RefReadme), Link(RefNonexistent) }

\* The largest number of constructs of an entry document.
MaxRefs == 2

EntryContents == {c \in SUBSET EntryPool : Cardinality(c) <= MaxRefs}

NestedContent == {Link(RefDeep), Link(RefUpAssetsFile)}
DeepContent == {Link(RefNested), Link(RefUpReferencesTest)}

(***************************************************************************)
(* Configuration                                                           *)
(***************************************************************************)
ResourceDirs == <<<<Seg_references>>, <<Seg_assets>>, <<Seg_scripts>>>>
IgnoreDirs == <<<<Seg_git>>, <<Seg_pycache>>>>

\* The resource and ignore directories a validation is called with: the
\* defaults of Config, the ones of test_ignore_dirs, and a resource
\* directory whose name contains the name of an ignored one.
Configs ==
    { <<ResourceDirs, IgnoreDirs>>,
      <<<<<<Seg_references>>>>, <<<<Seg_git>>>>>>,
      <<<<<<Seg_scripts_git>>>>, <<<<Seg_plain_git>>>>>> }

ContentStartLineNumber == 0
LogLevels == {"ERROR", "WARNING", "INFO"}

(***************************************************************************)
(* UnreferencedFileValidator.extract_file_references                       *)
(***************************************************************************)
\* What one construct adds to the set of references.
ExtractOne(item) ==
    LET target == item.target
        \* ref.split("#")[0].split("?")[0]
        stripped == Head(Split(Head(Split(target, "#")), "?"))
    IN  CASE item.kind = "link" ->
               IF /\ stripped # <<>>
                  /\ ~StartsWith(stripped, HttpPrefix)
                  /\ ~StartsWith(stripped, HttpsPrefix)
                  /\ ~StartsWith(stripped, MailtoPrefix)
                  /\ ~StartsWith(stripped, <<"#">>)
               THEN {stripped} ELSE {}
          [] item.kind = "img" ->
               IF /\ target # <<>>
                  /\ ~StartsWith(target, HttpPrefix)
                  /\ ~StartsWith(target, HttpsPrefix)
                  /\ ~StartsWith(target, DataPrefix)
               THEN {target} ELSE {}
          [] item.kind = "attachment" -> {target}
          [] item.kind = "coderef" ->
               IF /\ target # <<>>
                  /\ ~StartsWith(target, HttpPrefix)
                  /\ ~StartsWith(target, HttpsPrefix)
               THEN {target} ELSE {}
          [] OTHER -> {}

ExtractFileReferences(content) == UNION {ExtractOne(item) : item \in content}

(***************************************************************************)
(* extract_file_references on the text of a document: the four regular     *)
(* expressions of lines 43, 52, 59 and 64, each matched from left to       *)
(* right as re.finditer does, the next search starting after a match.      *)
(***************************************************************************)
DoubleQuote == "\""
SingleQuote == "'"
Quotes == {DoubleQuote, SingleQuote}
\* the characters of \s that the documents of the model hold
Whitespace == {" ", "\n"}

\* The first place from i on where the text holds a character of the set, 0
\* when there is none
FirstIn(text, i, chars) ==
    LET places == {k \in i..Len(text) : text[k] \in chars}
    IN  IF places = {} THEN 0
        ELSE CHOOSE k \in places : \A j \in places : k <= j

\* The first place from i on where the text holds a character outside the set
FirstNotIn(text, i, chars) ==
    LET places == {k \in i..Len(text) : text[k] \notin chars}
    IN  IF places = {} THEN 0
        ELSE CHOOSE k \in places : \A j \in places : k <= j

\* The text holds the literal at place i
HasAt(text, i, literal) ==
    /\ i >= 1
    /\ i + Len(literal) - 1 <= Len(text)
    /\ SubSeq(text, i, i + Len(literal) - 1) = literal

\* re.IGNORECASE: the letters of the keywords, in both cases
UpperLetters == 
    <<"A", "B", "C", "D", "E", "F", "G", "H", "I", "J", "K", "L", "M">> \o
    <<"N", "O", "P", "Q", "R", "S", "T", "U", "V", "W", "X", "Y", "Z">>
LowerLetters == 
    <<"a", "b", "c", "d", "e", "f", "g", "h", "i", "j", "k", "l", "m">> \o
    <<"n", "o", "p", "q", "r", "s", "t", "u", "v", "w", "x", "y", "z">>
ToLower(c) ==
    IF \E k \in 1..Len(UpperLetters) : UpperLetters[k] = c
    THEN LowerLetters[CHOOSE k \in 1..Len(UpperLetters) : UpperLetters[k] = c]
    ELSE c
Lower(text) == [k \in 1..Len(text) |-> ToLower(text[k])]

\* Line 43, !?\[([^\]]*)\]\(([^)]+)\): the match that starts with the "[" at
\* place i, as <<first place of group 2, last place of group 2>>, or <<>>.
\* The text of the link ends at the first "]", which "(" must follow, and
\* the target at the first ")" after at least one character.
LinkMatchAt(text, i) ==
    LET close == FirstIn(text, i + 1, {"]"})
        paren == FirstIn(text, close + 2, {")"})
    IN  IF /\ text[i] = "["
           /\ close > 0
           /\ HasAt(text, close + 1, <<"(">>)
           /\ paren > close + 2
        THEN <<close + 2, paren - 1>>
        ELSE <<>>

\* Lines 47-49 without the removal of the fragment and of the query.
LinkReferenceUnstripped(target) ==
    IF /\ target # <<>>
       /\ ~StartsWith(target, HttpPrefix)
       /\ ~StartsWith(target, HttpsPrefix)
       /\ ~StartsWith(target, MailtoPrefix)
       /\ ~StartsWith(target, <<"#">>)
    THEN {target} ELSE {}

\* Lines 47-49: what the target of a link adds.
LinkReference(target) ==
    LET ref == Head(Split(Head(Split(target, "#")), "?"))
    IN  IF /\ ref # <<>>
           /\ ~StartsWith(ref, HttpPrefix)
           /\ ~StartsWith(ref, HttpsPrefix)
           /\ ~StartsWith(ref, MailtoPrefix)
           /\ ~StartsWith(ref, <<"#">>)
        THEN {ref} ELSE {}

RECURSIVE LinkReferencesFrom(_, _)
LinkReferencesFrom(text, i) ==
    IF i > Len(text) THEN {}
    ELSE LET m == LinkMatchAt(text, i)
         IN  IF m = <<>> THEN LinkReferencesFrom(text, i + 1)
             ELSE LinkReference(SubSeq(text, m[1], m[2]))
                    \cup LinkReferencesFrom(text, m[2] + 2)

\* Lines 52 and 59, <tag[^>]+attr=["\']([^"\']+)["\']: the match that starts
\* with the tag at place i. [^>]+ is greedy: of the places of the attribute
\* before the first ">" it takes the last one that a quoted value follows.
TagMatchAt(text, i, tag, attr) ==
    LET gt == FirstIn(text, i + Len(tag), {">"})
        limit == IF gt = 0 THEN Len(text) + 1 ELSE gt
        found == {p \in (i + Len(tag) + 1)..limit :
                     /\ HasAt(text, p, attr)
                     /\ p + Len(attr) <= Len(text)
                     /\ text[p + Len(attr)] \in Quotes
                     /\ FirstIn(text, p + Len(attr) + 1, Quotes) > p + Len(attr) + 1}
        last == CHOOSE p \in found : \A q \in found : q <= p
    IN  IF HasAt(text, i, tag) /\ found # {}
        THEN <<last + Len(attr) + 1, FirstIn(text, last + Len(attr) + 1, Quotes) - 1>>
        ELSE <<>>

ImgTag == <<"<", "i", "m", "g">>
SrcAttr == <<"s", "r", "c", "=">>
AttachmentTag == <<"<", "a", "t", "t", "a", "c", "h", "m", "e", "n", "t">>
FilePathAttr == <<"f", "i", "l", "e", "P", "a", "t", "h", "=">>

\* ImgReference with the exclusions of the links.
ImgReferenceLikeLinks(target) ==
    IF /\ target # <<>>
       /\ ~StartsWith(target, HttpPrefix)
       /\ ~StartsWith(target, HttpsPrefix)
       /\ ~StartsWith(target, MailtoPrefix)
       /\ ~StartsWith(target, <<"#">>)
    THEN {target} ELSE {}

\* Lines 54-56: what the src of an img tag adds.
ImgReference(target) ==
    IF /\ target # <<>>
       /\ ~StartsWith(target, HttpPrefix)
       /\ ~StartsWith(target, HttpsPrefix)
       /\ ~StartsWith(target, DataPrefix)
    THEN {target} ELSE {}

RECURSIVE ImgReferencesFrom(_, _)
ImgReferencesFrom(text, i) ==
    IF i > Len(text) THEN {}
    ELSE LET m == TagMatchAt(text, i, ImgTag, SrcAttr)
         IN  IF m = <<>> THEN ImgReferencesFrom(text, i + 1)
             ELSE ImgReference(SubSeq(text, m[1], m[2]))
                    \cup ImgReferencesFrom(text, m[2] + 2)

\* Lines 60-61: the filePath of an attachment tag is added as it is.
RECURSIVE AttachmentReferencesFrom(_, _)
AttachmentReferencesFrom(text, i) ==
    IF i > Len(text) THEN {}
    ELSE LET m == TagMatchAt(text, i, AttachmentTag, FilePathAttr)
         IN  IF m = <<>> THEN AttachmentReferencesFrom(text, i + 1)
             ELSE {SubSeq(text, m[1], m[2])}
                    \cup AttachmentReferencesFrom(text, m[2] + 2)

\* Line 64, (?:source|file|path):\s*([^\s\n]+) with re.IGNORECASE: the match
\* that starts with a keyword at place i; the value is the run of characters
\* other than white space that follows the white space after the colon.
CodeRefKeywords == {<<"s", "o", "u", "r", "c", "e", ":">>, <<"f", "i", "l", "e", ":">>, <<"p", "a", "t", "h", ":">>}

CodeRefMatchAt(text, i) ==
    LET keys == {kw \in CodeRefKeywords : HasAt(Lower(text), i, kw)}
        kw == CHOOSE k \in keys : TRUE
        first == FirstNotIn(text, i + Len(kw), Whitespace)
        space == FirstIn(text, first, Whitespace)
    IN  IF keys # {} /\ first > 0
        THEN <<first, IF space = 0 THEN Len(text) ELSE space - 1>>
        ELSE <<>>

\* CodeReferencesFrom when the pattern is not part of the extraction.
NoCodeReferences(text, i) == {}

\* Lines 66-68: what the value of a code reference adds.
CodeReference(target) ==
    IF /\ target # <<>>
       /\ ~StartsWith(target, HttpPrefix)
       /\ ~StartsWith(target, HttpsPrefix)
    THEN {target} ELSE {}

RECURSIVE CodeReferencesScan(_, _)
CodeReferencesScan(text, i) ==
    IF i > Len(text) THEN {}
    ELSE LET m == CodeRefMatchAt(text, i)
         IN  IF m = <<>> THEN CodeReferencesScan(text, i + 1)
             ELSE CodeReference(SubSeq(text, m[1], m[2]))
                    \cup CodeReferencesScan(text, m[2] + 1)

CodeReferencesFrom(text, i) == CodeReferencesScan(text, i)

\* Lines 31-70: the references of a text.
ExtractFromText(text) ==
    LinkReferencesFrom(text, 1) \cup ImgReferencesFrom(text, 1)
        \cup AttachmentReferencesFrom(text, 1) \cup CodeReferencesFrom(text, 1)

(***************************************************************************)
(* UnreferencedFileValidator._add_resolved_reference                       *)
(***************************************************************************)
\* ResolvedPath taking every reference from the project root.
ResolvedPathFromRoot(ref, md_file) ==
    IF StartsWith(ref, <<Slash>>)
    THEN PathJoin(ProjectDir, LStripSlash(ref))
    ELSE Resolve(PathJoin(ProjectDir, ref))

\* The path a reference found in md_file denotes: below the project root
\* for a reference that starts with "/", else below the directory of md_file
\* and resolved.
ResolvedPath(ref, md_file) ==
    IF StartsWith(ref, <<Slash>>)
    THEN PathJoin(ProjectDir, LStripSlash(ref))
    ELSE Resolve(PathJoin(Parent(md_file), ref))

\* No string: the reference is skipped (relative_to raised ValueError).
Discarded == <<>>

\* The string added to the set of referenced files, or Discarded.
CanonicalReference(ref, md_file) ==
    LET resolved == ResolvedPath(ref, md_file)
    IN  IF IsRelativeTo(resolved, ProjectDir)
        THEN PathStr(RelativeTo(resolved, ProjectDir))
        ELSE Discarded

AddResolvedReference(ref, md_file, referenced) ==
    LET canonical == CanonicalReference(ref, md_file)
    IN  IF canonical = Discarded THEN referenced ELSE referenced \cup {canonical}

(***************************************************************************)
(* UnreferencedFileValidator.validate_unreferenced_files                   *)
(***************************************************************************)
VARIABLES
    markdown_file,         \* input: the entry document's path
    markdown_content,      \* input: the entry document's content
    relative_to,           \* input: the base of the paths reported
    level,                 \* input: the level of an unreferenced file
    unreadable,            \* the markdown files whose read_text() raises
    resource_dirs,         \* input: the directories to scan, project-relative
    ignore_dirs,           \* input: the directories to leave out
    pc,                    \* the position in validate_unreferenced_files
    refs,                  \* the references of the entry document
    todo,                  \* the references the current loop has yet to take
    all_referenced_files,  \* the set of resolved references
    resolved_log,          \* history: <<reference, its file, what was added>>
    reads,                 \* history: how many times each file was read
    emitted,               \* the logRule calls made, in order
    warnings,
    errors,
    dir_index,             \* the resource directory the scan is at
    scan_todo,             \* the files of it the scan has yet to take
    result                 \* the pair returned

\* The state of one call of extract_file_references on a text
VARIABLES
    doc_items,             \* history: the constructs the text is written from
    doc_text,              \* input: markdown_content, a string
    doc_references,        \* the set returned
    doc_pc                 \* "idle", "start" or "done"

extractor_vars == <<doc_items, doc_text, doc_references, doc_pc>>

ExtractorIdle ==
    /\ doc_items = <<>>
    /\ doc_text = <<>>
    /\ doc_references = {}
    /\ doc_pc = "idle"

\* The state of one call of validate_content_length
VARIABLES
    cl_content,            \* input: the content, a string
    cl_max_tokens,         \* input
    cl_max_lines,          \* input
    cl_tokenizer,          \* "tiktoken" when that module can be imported, else "naive"
    cl_token_count,        \* the count compute_token_count_accurate returned
    cl_emitted,            \* the logRule calls made, in order
    cl_nb_warnings,
    cl_nb_errors,
    cl_pc,                 \* "idle", "tokens", "lines" or "done"
    cl_result              \* the pair returned

length_vars == <<cl_content, cl_max_tokens, cl_max_lines, cl_tokenizer,
                 cl_token_count, cl_emitted, cl_nb_warnings, cl_nb_errors,
                 cl_pc, cl_result>>

LengthIdle ==
    /\ cl_content = <<>>
    /\ cl_max_tokens = 0
    /\ cl_max_lines = 0
    /\ cl_tokenizer = "naive"
    /\ cl_token_count = 0
    /\ cl_emitted = <<>>
    /\ cl_nb_warnings = 0
    /\ cl_nb_errors = 0
    /\ cl_pc = "idle"
    /\ cl_result = <<-1, -1>>

\* The state of one call of validate_code_snippets
VARIABLES
    cs_file,               \* input: "ok", "missing" or "unreadable"
    cs_parts,              \* history: the parts the content is written from
    cs_content,            \* the content of the file, a string
    cs_max_lines,          \* self.max_lines
    cs_matches,            \* the matches the loop has yet to take
    cs_emitted,            \* the logRule calls made, in order
    cs_warnings,
    cs_pc,                 \* "idle", "start", "blocks" or "done"
    cs_result              \* the pair returned

snippet_vars == <<cs_file, cs_parts, cs_content, cs_max_lines, cs_matches,
                  cs_emitted, cs_warnings, cs_pc, cs_result>>

SnippetIdle ==
    /\ cs_file = "ok"
    /\ cs_parts = <<>>
    /\ cs_content = <<>>
    /\ cs_max_lines = 0
    /\ cs_matches = <<>>
    /\ cs_emitted = <<>>
    /\ cs_warnings = 0
    /\ cs_pc = "idle"
    /\ cs_result = <<-1, -1>>

\* The state of one call of validate_content_file_references
VARIABLES
    fr_items,              \* history: the spans the content is written from
    fr_separator,          \* history: what stands between two spans
    fr_content,            \* content, a string
    fr_base_dirs,          \* base_dirs, a sequence of directories
    fr_file,               \* file
    fr_project_dir,        \* project_dir
    fr_start_line,         \* content_start_line_number
    fr_matches,            \* the matches the loop has yet to take
    fr_file_links,         \* the keys of file_links
    fr_checked,            \* history: the links given to _validate_file_link
    fr_emitted,            \* the logRule calls made, in order
    fr_error_count,        \* file_error_count
    fr_pc,                 \* "idle", "start", "links" or "done"
    fr_result              \* the pair returned

reference_vars == <<fr_items, fr_separator, fr_content, fr_base_dirs,
                    fr_file, fr_project_dir,
                    fr_start_line, fr_matches, fr_file_links, fr_checked,
                    fr_emitted, fr_error_count, fr_pc, fr_result>>

ReferenceIdle ==
    /\ fr_items = <<>>
    /\ fr_separator = <<>>
    /\ fr_content = <<>>
    /\ fr_base_dirs = <<>>
    /\ fr_file = <<>>
    /\ fr_project_dir = <<>>
    /\ fr_start_line = 0
    /\ fr_matches = <<>>
    /\ fr_file_links = {}
    /\ fr_checked = <<>>
    /\ fr_emitted = <<>>
    /\ fr_error_count = 0
    /\ fr_pc = "idle"
    /\ fr_result = <<-1, -1>>

\* The Logger of one run of the program
VARIABLES
    lg_level,              \* self.level
    lg_format,             \* self.log_format
    lg_messages,           \* self.messages
    lg_printed,            \* history: the findings given to the formatter and printed
    lg_op,                 \* history: the last call made
    lg_calls,              \* history: the number of calls made
    lg_pc,                 \* "idle", "created", "level_set", "validating",
                           \* "reported", or "api" when the calls come in any order
    lg_arg,                \* history: the level and rule given to the last log or logRule
    lg_accepted            \* history: the findings that passed the level test

logger_vars == <<lg_level, lg_format, lg_messages, lg_printed, lg_op, lg_calls,
                 lg_pc, lg_arg, lg_accepted>>

NoArg == [level |-> "none", rule |-> "none"]

LoggerIdle ==
    /\ lg_level = "INFO"
    /\ lg_format = "file-digest"
    /\ lg_messages = <<>>
    /\ lg_printed = <<>>
    /\ lg_op = "none"
    /\ lg_calls = 0
    /\ lg_pc = "idle"
    /\ lg_arg = NoArg
    /\ lg_accepted = <<>>

(***************************************************************************)
(* PromptAgentValidator: the check that AGENTS.md exists                   *)
(***************************************************************************)
VARIABLES
    ag_arg,                \* the missing_agents_level given to the constructor
    ag_level,              \* self.missing_agents_level
    ag_project_dir,        \* project_dir
    ag_exists,             \* whether project_dir / "AGENTS.md" exists
    ag_emitted,            \* the calls of self.logger.log, in order
    ag_result,             \* the pair validate_agents_md_exists returns
    ag_pc                  \* "idle", "new", "constructed" or "done"

agents_vars == <<ag_arg, ag_level, ag_project_dir, ag_exists, ag_emitted,
                 ag_result, ag_pc>>

AgentsIdle ==
    /\ ag_arg = [kind |-> "str", value |-> "WARNING"]
    /\ ag_level = "none"
    /\ ag_project_dir = <<>>
    /\ ag_exists = FALSE
    /\ ag_emitted = <<>>
    /\ ag_result = <<0, 0>>
    /\ ag_pc = "idle"

(***************************************************************************)
(* main: the totals of a run and its exit status                           *)
(***************************************************************************)
VARIABLES
    mn_skills,             \* args.skills
    mn_missing_dir,        \* whether some directory given does not exist
    mn_skill_dirs,         \* len(skill_directories)
    mn_project_dirs,       \* len(project_dirs)
    mn_max_warnings,       \* max_warnings
    mn_total_warnings,     \* total_warnings
    mn_total_errors,       \* total_errors
    mn_i,                  \* the position in the loop being run
    mn_warning_findings,   \* history: the WARNING findings the validators counted
    mn_error_findings,     \* history: the ERROR findings the validators emitted
    mn_flushed,            \* history: logger.flush() was called
    mn_status,             \* the argument of sys.exit, or NoStatus
    mn_pc                  \* "idle", "start", "skills", "agents", "snippets",
                           \* "prompts", "flush", "decide", "aborted" or "exited"

main_vars == <<mn_skills, mn_missing_dir, mn_skill_dirs, mn_project_dirs,
               mn_max_warnings, mn_total_warnings, mn_total_errors, mn_i,
               mn_warning_findings, mn_error_findings, mn_flushed, mn_status,
               mn_pc>>

NoStatus == "none"

\* float("inf"), the default of --max-warnings
Infinite == [finite |-> FALSE, value |-> 0]

MainIdle ==
    /\ mn_skills = FALSE
    /\ mn_missing_dir = FALSE
    /\ mn_skill_dirs = 0
    /\ mn_project_dirs = 0
    /\ mn_max_warnings = Infinite
    /\ mn_total_warnings = 0
    /\ mn_total_errors = 0
    /\ mn_i = 0
    /\ mn_warning_findings = 0
    /\ mn_error_findings = 0
    /\ mn_flushed = FALSE
    /\ mn_status = NoStatus
    /\ mn_pc = "idle"

\* What a step of each operation leaves alone
not_validator == <<extractor_vars, length_vars, snippet_vars, reference_vars, logger_vars, agents_vars, main_vars>>

inputs == <<markdown_file, markdown_content, relative_to, level, unreadable,
            resource_dirs, ignore_dirs>>
validator_vars ==
    <<markdown_file, markdown_content, relative_to, level, unreadable,
      resource_dirs, ignore_dirs, pc,
      refs, todo, all_referenced_files, resolved_log, reads, emitted,
      warnings, errors, dir_index, scan_todo, result>>
not_extractor == <<validator_vars, length_vars, snippet_vars, reference_vars, logger_vars, agents_vars, main_vars>>
not_length == <<validator_vars, extractor_vars, snippet_vars, reference_vars, logger_vars, agents_vars, main_vars>>
not_snippet == <<validator_vars, extractor_vars, length_vars, reference_vars, logger_vars, agents_vars, main_vars>>
not_reference == <<validator_vars, extractor_vars, length_vars, snippet_vars, logger_vars, agents_vars, main_vars>>
not_logger == <<validator_vars, extractor_vars, length_vars, snippet_vars, reference_vars, agents_vars, main_vars>>
not_agents == <<extractor_vars, length_vars, snippet_vars, reference_vars, logger_vars, validator_vars, main_vars>>
not_main == <<extractor_vars, length_vars, snippet_vars, reference_vars, logger_vars, agents_vars, validator_vars>>
vars == <<validator_vars, not_validator>>

\* The cap of the read counters.
ReadCap == 3

NoResult == <<-1, -1>>

\* The bases the callers report against: the project root or a directory above it.
RelativeToChoices == {ProjectDir, <<>>}

Init ==
    /\ markdown_file \in EntryFiles
    /\ markdown_content \in EntryContents
    /\ relative_to \in RelativeToChoices
    /\ level \in LogLevels
    /\ unreadable \in {{}, {NestedMd}}
    /\ \E config \in Configs :
          /\ resource_dirs = config[1]
          /\ ignore_dirs = config[2]
    \* the configurations of the tests are run on README.md, as the tests do
    /\ resource_dirs # ResourceDirs =>
          (markdown_file = ReadmeMd /\ relative_to = ProjectDir /\ unreadable = {})
    \* the levels other than the default one are run on README.md with the
    \* default directories and every file readable
    /\ level # "ERROR" =>
          (markdown_file = ReadmeMd /\ resource_dirs = ResourceDirs /\ unreadable = {})
    /\ pc = "start"
    /\ refs = {}
    /\ todo = {}
    /\ all_referenced_files = {}
    /\ resolved_log = {}
    /\ reads = [f \in MarkdownFiles |-> 0]
    /\ emitted = <<>>
    /\ warnings = 0
    /\ errors = 0
    /\ dir_index = 1
    /\ scan_todo = {}
    /\ result = NoResult
    /\ ExtractorIdle
    /\ LengthIdle
    /\ SnippetIdle
    /\ ReferenceIdle
    /\ LoggerIdle
    /\ AgentsIdle
    /\ MainIdle

\* What read_text() returns for a markdown file of the project; the entry
\* document holds the content handed to the validation.
FileContent(file) ==
    IF file = markdown_file THEN markdown_content
    ELSE IF file = NestedMd THEN NestedContent
    ELSE IF file = DeepMd THEN DeepContent
    ELSE {}

\* A logRule call made without a line number.
NoLine == <<>>

Finding(lvl, rule, file, line) ==
    [level |-> lvl, rule |-> rule, file |-> file, line |-> line]

\* Lines 135-137: the references of the entry content.
ExtractMain ==
    /\ pc = "start"
    /\ refs' = ExtractFileReferences(markdown_content)
    /\ todo' = refs'
    /\ pc' = IF refs' = {} THEN "resource_dirs" ELSE "main_refs"
    /\ UNCHANGED <<not_validator, inputs, all_referenced_files, resolved_log, reads, emitted,
                   warnings, errors, dir_index, scan_todo, result>>

\* Lines 140-143: one turn of the loop over the entry document's references.
ResolveMainReference ==
    /\ pc = "main_refs"
    /\ \E ref \in todo :
         /\ all_referenced_files' =
                AddResolvedReference(ref, markdown_file, all_referenced_files)
         /\ resolved_log' = resolved_log \cup
                {<<ref, markdown_file, CanonicalReference(ref, markdown_file)>>}
         /\ IF todo = {ref}
            THEN pc' = "nested_refs" /\ todo' = refs
            ELSE pc' = pc /\ todo' = todo \ {ref}
    /\ UNCHANGED <<not_validator, inputs, refs, reads, emitted, warnings, errors, dir_index,
                   scan_todo, result>>

\* Lines 150-153: the markdown file a reference of the entry document names.
ReferencedMd(ref) == ResolvedPath(ref, markdown_file)

\* AddNestedReferences following the markdown references of the nested
\* file one hop further.
AddNestedReferencesTwoHops(referenced_md, referenced) ==
    LET nested_refs == ExtractFileReferences(FileContent(Lookup(referenced_md)))
        second_md == {ResolvedPath(nested_ref, referenced_md) :
                        nested_ref \in {r \in nested_refs : EndsWith(r, MdSuffix)}}
        hop(md) == {CanonicalReference(r, md) :
                        r \in ExtractFileReferences(FileContent(Lookup(md)))}
    IN  (referenced \cup hop(referenced_md)
           \cup UNION {hop(md) : md \in {m \in second_md : IsFile(m)}})
        \ {Discarded}

\* AddNestedReferences resolving against the entry document.
AddNestedReferencesFromEntry(referenced_md, referenced) ==
    LET nested_refs == ExtractFileReferences(FileContent(Lookup(referenced_md)))
    IN  referenced \cup
        ({CanonicalReference(nested_ref, markdown_file) : nested_ref \in nested_refs}
           \ {Discarded})

\* Lines 158-167: the references of a nested markdown file, each resolved
\* against that file and added.
AddNestedReferences(referenced_md, referenced) ==
    LET nested_refs == ExtractFileReferences(FileContent(Lookup(referenced_md)))
    IN  referenced \cup
        ({CanonicalReference(nested_ref, referenced_md) : nested_ref \in nested_refs}
           \ {Discarded})

NestedLog(referenced_md) ==
    LET nested_refs == ExtractFileReferences(FileContent(Lookup(referenced_md)))
    IN  {<<nested_ref, referenced_md, CanonicalReference(nested_ref, referenced_md)>> :
            nested_ref \in nested_refs}

\* CountRead for a file read once to be extracted and once more.
CountReadTwice(file) ==
    [reads EXCEPT ![file] = IF @ + 1 < ReadCap THEN @ + 2 ELSE ReadCap]

\* Line 158: one more read_text() of the file.
CountRead(file) ==
    [reads EXCEPT ![file] = IF @ < ReadCap THEN @ + 1 ELSE @]

\* FollowMarkdownReference as a work list: the markdown references of the
\* file read are queued to be followed in their turn.
FollowMarkdownReferenceRequeue ==
    /\ pc = "nested_refs"
    /\ \E ref \in todo :
         LET referenced_md == ReferencedMd(ref)
             file == Lookup(referenced_md)
             follow == EndsWith(ref, MdSuffix) /\ IsFile(referenced_md)
                         /\ file \notin unreadable
             queued == IF follow
                       THEN {r \in ExtractFileReferences(FileContent(file)) :
                               EndsWith(r, MdSuffix)}
                       ELSE {}
         IN  /\ IF follow
                THEN /\ reads' = CountRead(file)
                     /\ all_referenced_files' =
                            AddNestedReferences(referenced_md, all_referenced_files)
                     /\ resolved_log' = resolved_log \cup NestedLog(referenced_md)
                ELSE UNCHANGED <<all_referenced_files, resolved_log, reads>>
             /\ IF (todo \ {ref}) \cup queued = {}
                THEN pc' = "resource_dirs" /\ todo' = {}
                ELSE pc' = pc /\ todo' = (todo \ {ref}) \cup queued
    /\ UNCHANGED <<not_validator, inputs, refs, emitted, warnings, errors, dir_index, scan_todo,
                   result>>

\* FollowMarkdownReference logging a reference-resolution-failed warning
\* for a markdown file that does not exist.
FollowMarkdownReferenceWarnMissing ==
    /\ pc = "nested_refs"
    /\ \E ref \in todo :
         LET referenced_md == ReferencedMd(ref)
             file == Lookup(referenced_md)
         IN  /\ IF EndsWith(ref, MdSuffix) /\ IsFile(referenced_md)
                THEN IF file \in unreadable
                     THEN /\ emitted' = Append(emitted,
                                 Finding("WARNING", "file-read-error",
                                         Abs(referenced_md), NoLine))
                          /\ UNCHANGED <<all_referenced_files, resolved_log, reads>>
                     ELSE /\ reads' = CountRead(file)
                          /\ all_referenced_files' =
                                 AddNestedReferences(referenced_md, all_referenced_files)
                          /\ resolved_log' = resolved_log \cup NestedLog(referenced_md)
                          /\ UNCHANGED emitted
                ELSE /\ emitted' =
                          IF EndsWith(ref, MdSuffix)
                          THEN Append(emitted,
                                 Finding("WARNING", "reference-resolution-failed",
                                         Abs(markdown_file), <<ContentStartLineNumber>>))
                          ELSE emitted
                     /\ UNCHANGED <<all_referenced_files, resolved_log, reads>>
             /\ IF todo = {ref}
                THEN pc' = "resource_dirs" /\ todo' = {}
                ELSE pc' = pc /\ todo' = todo \ {ref}
    /\ UNCHANGED <<not_validator, inputs, refs, warnings, errors, dir_index, scan_todo, result>>

\* FollowMarkdownReference counting a markdown file that does not exist as
\* a warning of the validation.
FollowMarkdownReferenceCountMissing ==
    /\ pc = "nested_refs"
    /\ \E ref \in todo :
         LET referenced_md == ReferencedMd(ref)
             file == Lookup(referenced_md)
         IN  /\ IF EndsWith(ref, MdSuffix) /\ IsFile(referenced_md)
                THEN IF file \in unreadable
                     THEN /\ emitted' = Append(emitted,
                                 Finding("WARNING", "file-read-error",
                                         Abs(referenced_md), NoLine))
                          /\ UNCHANGED <<all_referenced_files, resolved_log, reads,
                                         warnings>>
                     ELSE /\ reads' = CountRead(file)
                          /\ all_referenced_files' =
                                 AddNestedReferences(referenced_md, all_referenced_files)
                          /\ resolved_log' = resolved_log \cup NestedLog(referenced_md)
                          /\ UNCHANGED <<emitted, warnings>>
                ELSE /\ warnings' = IF EndsWith(ref, MdSuffix) THEN warnings + 1
                                                                ELSE warnings
                     /\ UNCHANGED <<all_referenced_files, resolved_log, reads, emitted>>
             /\ IF todo = {ref}
                THEN pc' = "resource_dirs" /\ todo' = {}
                ELSE pc' = pc /\ todo' = todo \ {ref}
    /\ UNCHANGED <<not_validator, inputs, refs, errors, dir_index, scan_todo, result>>

\* Lines 146-182: one turn of the loop that follows the references to
\* markdown files.
FollowMarkdownReference ==
    /\ pc = "nested_refs"
    /\ \E ref \in todo :
         LET referenced_md == ReferencedMd(ref)
             file == Lookup(referenced_md)
         IN  /\ IF EndsWith(ref, MdSuffix) /\ IsFile(referenced_md)
                THEN IF file \in unreadable
                     THEN /\ emitted' = Append(emitted,
                                 Finding("WARNING", "file-read-error",
                                         Abs(referenced_md), NoLine))
                          /\ UNCHANGED <<all_referenced_files, resolved_log, reads>>
                     ELSE /\ reads' = CountRead(file)
                          /\ all_referenced_files' =
                                 AddNestedReferences(referenced_md, all_referenced_files)
                          /\ resolved_log' = resolved_log \cup NestedLog(referenced_md)
                          /\ UNCHANGED emitted
                ELSE UNCHANGED <<all_referenced_files, resolved_log, reads, emitted>>
             /\ IF todo = {ref}
                THEN pc' = "resource_dirs" /\ todo' = {}
                ELSE pc' = pc /\ todo' = todo \ {ref}
    /\ UNCHANGED <<not_validator, inputs, refs, warnings, errors, dir_index, scan_todo, result>>

\* s holds t as a run of consecutive characters
IsSubstring(t, s) ==
    \E k \in 0..(Len(s) - Len(t)) : SubSeq(s, k + 1, k + Len(t)) = t

\* IsIgnored by containment: the name of an ignored directory occurs inside
\* a segment of the file's path.
IsIgnoredSubstring(file_path) ==
    \E i \in 1..Len(file_path), j \in 1..Len(ignore_dirs) :
        IsSubstring(ignore_dirs[j][Len(ignore_dirs[j])], file_path[i])

\* Lines 207 and 130: some segment of the file's path is the name of an
\* ignored directory.
IsIgnored(file_path) ==
    \E i \in 1..Len(file_path), j \in 1..Len(ignore_dirs) :
        file_path[i] = ignore_dirs[j][Len(ignore_dirs[j])]

\* IsReferenced without the comparison of endings.
IsReferencedExactOnly(project_relative_str, referenced) ==
    project_relative_str \in referenced

\* Lines 222-227: a resolved reference equals the file's project-relative
\* path or ends with it.
IsReferenced(project_relative_str, referenced) ==
    \E ref \in referenced :
        ref = project_relative_str \/ EndsWith(ref, project_relative_str)

\* Lines 214-246: whether the file is reported; a relative_to that raises
\* ValueError reports nothing.
IsReported(file_path, referenced) ==
    /\ ~IsIgnored(file_path)
    /\ IsRelativeTo(file_path, relative_to)
    /\ IsRelativeTo(file_path, ProjectDir)
    /\ ~IsReferenced(PathStr(RelativeTo(file_path, ProjectDir)), referenced)
    /\ IsRelativeTo(ProjectDir, relative_to)

\* CountWarning counting every report.
CountWarningAnyLevel(lvl, n) == n + 1

\* Lines 239-242: the counters after one report at a level.
CountWarning(lvl, n) == IF lvl = "WARNING" THEN n + 1 ELSE n
CountError(lvl, n) == IF lvl = "ERROR" THEN n + 1 ELSE n

\* Lines 190-197: the head of the loop over the resource directories.
EnterResourceDir ==
    /\ pc = "resource_dirs"
    /\ dir_index <= Len(resource_dirs)
    /\ LET resource_path == ProjectDir \o resource_dirs[dir_index]
       IN  IF IsDirectory(resource_path) /\ RGlobFiles(resource_path) # {}
           THEN /\ scan_todo' = RGlobFiles(resource_path)
                /\ pc' = "resource_files"
                /\ UNCHANGED dir_index
           ELSE /\ dir_index' = dir_index + 1
                /\ UNCHANGED <<pc, scan_todo>>
    /\ UNCHANGED <<not_validator, inputs, refs, todo, all_referenced_files, resolved_log, reads,
                   emitted, warnings, errors, result>>

\* Lines 200-246: one turn of the loop over the files of a resource directory.
CheckResourceFile ==
    /\ pc = "resource_files"
    /\ \E file_path \in scan_todo :
         /\ IF IsReported(file_path, all_referenced_files)
            THEN /\ emitted' = Append(emitted,
                        Finding(level, "unreferenced-resource-file",
                                PathStr(RelativeTo(file_path, relative_to)),
                                <<ContentStartLineNumber>>))
                 /\ warnings' = CountWarning(level, warnings)
                 /\ errors' = CountError(level, errors)
            ELSE UNCHANGED <<emitted, warnings, errors>>
         /\ IF scan_todo = {file_path}
            THEN /\ pc' = "resource_dirs"
                 /\ dir_index' = dir_index + 1
                 /\ scan_todo' = {}
            ELSE /\ scan_todo' = scan_todo \ {file_path}
                 /\ UNCHANGED <<pc, dir_index>>
    /\ UNCHANGED <<not_validator, inputs, refs, todo, all_referenced_files, resolved_log, reads,
                   result>>

\* Line 248.
Return ==
    /\ pc = "resource_dirs"
    /\ dir_index > Len(resource_dirs)
    /\ pc' = "done"
    /\ result' = <<warnings, errors>>
    /\ UNCHANGED <<not_validator, inputs, refs, todo, all_referenced_files, resolved_log, reads,
                   emitted, warnings, errors, dir_index, scan_todo>>

Next ==
    \/ ExtractMain
    \/ ResolveMainReference
    \/ FollowMarkdownReference
    \/ EnterResourceDir
    \/ CheckResourceFile
    \/ Return

Spec == Init /\ [][Next]_vars

\* validate_unreferenced_files is one synchronous call: it keeps running
\* while it has a step to take.
FairSpec == Spec /\ WF_vars(Next)

\* No call of validate_unreferenced_files is under way.
ValidatorIdle ==
    /\ markdown_file = ReadmeMd
    /\ markdown_content = {}
    /\ relative_to = ProjectDir
    /\ level = "ERROR"
    /\ unreadable = {}
    /\ resource_dirs = ResourceDirs
    /\ ignore_dirs = IgnoreDirs
    /\ pc = "idle"
    /\ refs = {}
    /\ todo = {}
    /\ all_referenced_files = {}
    /\ resolved_log = {}
    /\ reads = [f \in MarkdownFiles |-> 0]
    /\ emitted = <<>>
    /\ warnings = 0
    /\ errors = 0
    /\ dir_index = 1
    /\ scan_todo = {}
    /\ result = NoResult

(***************************************************************************)
(* One call of extract_file_references on the text of a document.  The     *)
(* text is written from one or two constructs, one to a line:              *)
(*   link [t](target)          image ![t](target)                          *)
(*   img <img src="target">    img_single <img src='target'>               *)
(*   attachment <attachment filePath="target">, attachment_single with ''  *)
(*   coderef source: target    coderef_upper File:target                   *)
(*   backtick `target`         plain target                                *)
(***************************************************************************)
\* the backtick character, which a string of this notation cannot hold
Backtick == "<backtick>"

Construct(kind, target) == [kind |-> kind, target |-> target]

Render(item) ==
    CASE item.kind = "link" -> <<"[", "t", "]", "(">> \o item.target \o <<")">>
      [] item.kind = "image" -> <<"!", "[", "t", "]", "(">> \o item.target \o <<")">>
      [] item.kind = "img" -> <<"<", "i", "m", "g", " ", "s", "r", "c", "=", "\"">> \o item.target \o <<DoubleQuote, ">">>
      [] item.kind = "img_single" -> <<"<", "i", "m", "g", " ", "s", "r", "c", "=", "'">> \o item.target \o <<SingleQuote, ">">>
      [] item.kind = "attachment" ->
            <<"<", "a", "t", "t", "a", "c", "h", "m", "e", "n", "t", " ", "f", "i", "l", "e", "P", "a", "t", "h", "=", "\"">> \o item.target \o <<DoubleQuote, ">">>
      [] item.kind = "attachment_single" ->
            <<"<", "a", "t", "t", "a", "c", "h", "m", "e", "n", "t", " ", "f", "i", "l", "e", "P", "a", "t", "h", "=", "'">> \o item.target \o <<SingleQuote, ">">>
      [] item.kind = "coderef" -> <<"s", "o", "u", "r", "c", "e", ":", " ">> \o item.target
      [] item.kind = "coderef_upper" -> <<"F", "i", "l", "e", ":">> \o item.target
      [] item.kind = "backtick" -> <<Backtick>> \o item.target \o <<Backtick>>
      [] OTHER -> item.target

RenderAll[items \in Seq([kind : STRING, target : String])] ==
    IF items = <<>> THEN <<>>
    ELSE IF Len(items) = 1 THEN Render(items[1])
    ELSE Render(Head(items)) \o <<"\n">> \o RenderAll[Tail(items)]

ConstructKinds ==
    {"link", "image", "img", "img_single", "attachment", "attachment_single",
     "coderef", "coderef_upper", "backtick", "plain"}

\* The targets: a path, behind nothing or a scheme or "#", before nothing or
\* a fragment, a query, or both.
TargetPath == <<"a", "/", "b">>
OtherPath == <<"c", "/", "d">>
TargetPrefixes ==
    {<<>>, HttpPrefix, HttpsPrefix, MailtoPrefix, DataPrefix, <<"#">>}
FragmentSuffix == <<"#", "f">>
QuerySuffix == <<"?", "q">>
QueryFragmentSuffix == <<"?", "q", "#", "f">>
TargetSuffixes == {<<>>, FragmentSuffix, QuerySuffix, QueryFragmentSuffix}
Targets == {prefix \o TargetPath \o suffix :
                prefix \in TargetPrefixes, suffix \in TargetSuffixes}

Constructs == {Construct(kind, target) : kind \in ConstructKinds, target \in Targets}

\* What may stand on the second line
Companions == {Construct("link", OtherPath), Construct("backtick", OtherPath)}

Documents ==
    {<<item>> : item \in Constructs}
        \cup {<<item, other>> : item \in Constructs, other \in Companions}

InitExtract ==
    /\ doc_items \in Documents
    /\ doc_text = RenderAll[doc_items]
    /\ doc_references = {}
    /\ doc_pc = "start"
    /\ ValidatorIdle
    /\ LengthIdle
    /\ SnippetIdle
    /\ ReferenceIdle
    /\ LoggerIdle
    /\ AgentsIdle
    /\ MainIdle

\* Lines 31-70.
ExtractReferences ==
    /\ doc_pc = "start"
    /\ doc_references' = ExtractFromText(doc_text)
    /\ doc_pc' = "done"
    /\ UNCHANGED <<doc_items, doc_text, not_extractor>>

NextExtract == ExtractReferences

SpecExtract == InitExtract /\ [][NextExtract]_vars

(***************************************************************************)
(* ContentLengthValidator.validate_content_length, which                   *)
(* FileReferenceValidator.validate_content_length repeats line for line.   *)
(***************************************************************************)
\* The ceilings AgentValidator passes
MaxAgentContentTokenCount == 5000
MaxAgentContentLinesCount == 500

\* content.count(sub) for a sub of one character
Count(text, sub) == Cardinality({k \in 1..Len(text) : text[k] = sub})

\* LineCount as the number of newline characters.
LineCountOfNewlines(content) == Count(content, "\n")

\* Line 40: content.count("\n") + 1
LineCount(content) == Count(content, "\n") + 1

\* AiStats.compute_token_count_accurate: the length of the tiktoken
\* encoding, which this model does not compute and takes as any count up
\* to a small one that the text has characters for, or len(text) // 4
\* when tiktoken cannot be imported.
TokenCounts(text, tokenizer) ==
    IF tokenizer = "naive" THEN {Len(text) \div 4}
    ELSE {c \in 0..2 : c <= Len(text)}

\* A text of n newline characters: n + 1 empty lines
Newlines(n) == [k \in 1..n |-> "\n"]

LengthContents ==
    { <<>>, <<"x">>, <<"x", "\n", "x">>, <<"x", "\n", "x", "\n">>,
      <<"x", "x", "x", "x", "\n", "x", "x", "x", "x">>,
      Newlines(MaxAgentContentLinesCount - 1), Newlines(MaxAgentContentLinesCount) }

LengthLineNumber == <<1>>
LengthFile == Str(<<Seg_README_md>>)

InitLength ==
    /\ cl_content \in LengthContents
    /\ cl_max_tokens \in {0, 1, MaxAgentContentTokenCount}
    /\ cl_max_lines \in {1, 2, MaxAgentContentLinesCount}
    /\ cl_tokenizer \in {"tiktoken", "naive"}
    /\ cl_token_count = 0
    /\ cl_emitted = <<>>
    /\ cl_nb_warnings = 0
    /\ cl_nb_errors = 0
    /\ cl_pc = "tokens"
    /\ cl_result = <<-1, -1>>
    /\ ValidatorIdle
    /\ ExtractorIdle
    /\ SnippetIdle
    /\ ReferenceIdle
    /\ LoggerIdle
    /\ AgentsIdle
    /\ MainIdle

\* Lines 19-37: the check of the token count.
CheckTokenCount ==
    /\ cl_pc = "tokens"
    /\ \E token_count \in TokenCounts(cl_content, cl_tokenizer) :
         /\ cl_token_count' = token_count
         /\ IF token_count > cl_max_tokens
            THEN /\ cl_emitted' = Append(cl_emitted,
                        Finding("WARNING", "too-complex-content", LengthFile,
                                LengthLineNumber))
                 /\ cl_nb_warnings' = cl_nb_warnings + 1
            ELSE /\ cl_emitted' = Append(cl_emitted,
                        Finding("INFO", "content-complexity", LengthFile,
                                LengthLineNumber))
                 /\ UNCHANGED cl_nb_warnings
    /\ cl_pc' = "lines"
    /\ UNCHANGED <<cl_content, cl_max_tokens, cl_max_lines, cl_tokenizer,
                   cl_nb_errors, cl_result, not_length>>

\* Lines 39-51: the check of the line count, and the return.
CheckLineCount ==
    /\ cl_pc = "lines"
    /\ IF LineCount(cl_content) > cl_max_lines
       THEN /\ cl_emitted' = Append(cl_emitted,
                   Finding("ERROR", "too-many-lines", LengthFile, LengthLineNumber))
            /\ cl_nb_errors' = cl_nb_errors + 1
       ELSE UNCHANGED <<cl_emitted, cl_nb_errors>>
    /\ cl_result' = <<cl_nb_warnings, cl_nb_errors'>>
    /\ cl_pc' = "done"
    /\ UNCHANGED <<cl_content, cl_max_tokens, cl_max_lines, cl_tokenizer,
                   cl_token_count, cl_nb_warnings, not_length>>

NextLength ==
    \/ CheckTokenCount
    \/ CheckLineCount

SpecLength == InitLength /\ [][NextLength]_vars

(***************************************************************************)
(* CodeSnippetValidator.validate_code_snippets.  The content is written    *)
(* from parts: a line of text, or a fenced block, which is an opening      *)
(* fence with its language tag, the lines of the code, and a closing fence.*)
(***************************************************************************)
\* Config.code_snippet_max_lines and the default of the constructor
CodeSnippetMaxLines == 3

Fence == <<Backtick, Backtick, Backtick>>

\* The characters of \w
WordChars ==
    {UpperLetters[k] : k \in 1..Len(UpperLetters)}
        \cup {LowerLetters[k] : k \in 1..Len(LowerLetters)}
        \cup {"0", "1", "2", "3", "4", "5", "6", "7", "8", "9", "_"}

\* The first place from i on where the text holds the literal, 0 when none
FirstAt(text, i, literal) ==
    LET places == {k \in i..Len(text) : HasAt(text, k, literal)}
    IN  IF places = {} THEN 0
        ELSE CHOOSE k \in places : \A j \in places : k <= j

NoMatch == [start |-> 0, first |-> 0, last |-> 0]

\* Line 45, ```(?:\w+)?\n(.*?)``` with re.DOTALL: the match that starts
\* with the three backticks at place i. The word characters after them
\* must end at a newline; the group runs from there to the next three
\* backticks, wherever they stand.
CodeBlockMatchAt(text, i) ==
    LET after == FirstNotIn(text, i + Len(Fence), WordChars)
        close == FirstAt(text, after + 1, Fence)
    IN  IF /\ HasAt(text, i, Fence)
           /\ after > 0
           /\ text[after] = "\n"
           /\ close > 0
        THEN [start |-> i, first |-> after + 1, last |-> close - 1]
        ELSE NoMatch

\* Line 46: list(code_block_pattern.finditer(content))
RECURSIVE CodeBlockMatchesFrom(_, _)
CodeBlockMatchesFrom(text, i) ==
    IF i > Len(text) THEN <<>>
    ELSE LET m == CodeBlockMatchAt(text, i)
         IN  IF m = NoMatch THEN CodeBlockMatchesFrom(text, i + 1)
             ELSE <<m>> \o CodeBlockMatchesFrom(text, m.last + Len(Fence) + 1)

\* line.strip() is not empty
IsNonEmptyLine(line) == \E k \in 1..Len(line) : line[k] \notin Whitespace

\* Lines 55-56: the number of lines of the group that are not empty
NonEmptyLineCount(code_content) ==
    LET lines == Split(code_content, "\n")
    IN  Cardinality({k \in 1..Len(lines) : IsNonEmptyLine(lines[k])})

\* Lines 60-61: the line of the file where the match starts
LineNumberAt(text, start_pos) == Count(SubSeq(text, 1, start_pos - 1), "\n") + 1

TextPart == [kind |-> "text", tag |-> <<>>, body |-> <<>>]
Block(tag, body) == [kind |-> "block", tag |-> tag, body |-> body]

CodeLine == <<"x">>
BlankLine == <<>>

\* The language tags: none, a word, and one that is not made of word characters
LanguageTags == {<<>>, <<"p", "y">>, <<"c", "+", "+">>}

BlockBodies ==
    { <<CodeLine>>,
      <<CodeLine, CodeLine, CodeLine>>,
      <<CodeLine, BlankLine, CodeLine, BlankLine, CodeLine>>,
      <<CodeLine, CodeLine, CodeLine, CodeLine>>,
      <<CodeLine, CodeLine, BlankLine, CodeLine, CodeLine>>,
      <<CodeLine, CodeLine, CodeLine, CodeLine, CodeLine, CodeLine>> }

SnippetParts ==
    {TextPart} \cup {Block(tag, body) : tag \in LanguageTags, body \in BlockBodies}

\* Prose of several lines, and a fence that is opened and never closed
Prose == [kind |-> "text", tag |-> <<>>,
          body |-> <<CodeLine, CodeLine, CodeLine, CodeLine>>]

OpenFence(tag, body) == [kind |-> "open", tag |-> tag, body |-> body]

FenceParts ==
    SnippetParts \cup {Prose}
        \cup {OpenFence(tag, body) : tag \in LanguageTags, body \in BlockBodies}

\* The lines of a part
PartLines(part) ==
    IF part.kind = "text" THEN <<<<"t">>>> \o part.body
    ELSE IF part.kind = "open" THEN <<Fence \o part.tag>> \o part.body
    ELSE <<Fence \o part.tag>> \o part.body \o <<Fence>>

\* Lines, each ended by a newline
JoinLines[lines \in Seq(String)] ==
    IF lines = <<>> THEN <<>>
    ELSE Head(lines) \o <<"\n">> \o JoinLines[Tail(lines)]

RenderParts[parts \in Seq(FenceParts)] ==
    IF parts = <<>> THEN <<>>
    ELSE JoinLines[PartLines(Head(parts))] \o RenderParts[Tail(parts)]

\* The largest number of parts of a content.
MaxParts == 2

SnippetContents ==
    UNION {[1..n -> SnippetParts] : n \in 0..MaxParts}

InitSnippets ==
    /\ cs_file \in {"ok", "missing", "unreadable"}
    /\ cs_parts \in SnippetContents
    /\ cs_file # "ok" => cs_parts = <<>>
    /\ cs_content = RenderParts[cs_parts]
    /\ cs_max_lines \in {1, CodeSnippetMaxLines}
    /\ cs_matches = <<>>
    /\ cs_emitted = <<>>
    /\ cs_warnings = 0
    /\ cs_pc = "start"
    /\ cs_result = <<-1, -1>>
    /\ ValidatorIdle
    /\ ExtractorIdle
    /\ LengthIdle
    /\ ReferenceIdle
    /\ LoggerIdle
    /\ AgentsIdle
    /\ MainIdle

SnippetFile == Str(<<Seg_README_md>>)

\* Lines 19-27: the file does not exist.
SnippetFileNotFound ==
    /\ cs_pc = "start"
    /\ cs_file = "missing"
    /\ cs_emitted' = Append(cs_emitted,
            Finding("ERROR", "file-not-found", SnippetFile, NoLine))
    /\ cs_result' = <<0, 1>>
    /\ cs_pc' = "done"
    /\ UNCHANGED <<cs_file, cs_parts, cs_content, cs_max_lines, cs_matches,
                   cs_warnings, not_snippet>>

\* Lines 29-38: read_text raises.
SnippetFileReadError ==
    /\ cs_pc = "start"
    /\ cs_file = "unreadable"
    /\ cs_emitted' = Append(cs_emitted,
            Finding("ERROR", "file-read-error", SnippetFile, NoLine))
    /\ cs_result' = <<0, 1>>
    /\ cs_pc' = "done"
    /\ UNCHANGED <<cs_file, cs_parts, cs_content, cs_max_lines, cs_matches,
                   cs_warnings, not_snippet>>

\* Lines 40-50: the matches of the pattern; none returns (0, 0).
FindCodeBlocks ==
    /\ cs_pc = "start"
    /\ cs_file = "ok"
    /\ cs_matches' = CodeBlockMatchesFrom(cs_content, 1)
    /\ IF cs_matches' = <<>>
       THEN cs_pc' = "done" /\ cs_result' = <<0, 0>>
       ELSE cs_pc' = "blocks" /\ UNCHANGED cs_result
    /\ UNCHANGED <<cs_file, cs_parts, cs_content, cs_max_lines, cs_emitted,
                   cs_warnings, not_snippet>>

\* Lines 52-74: one turn of the loop over the matches, and after the last
\* one the return.
CheckCodeBlock ==
    /\ cs_pc = "blocks"
    /\ LET match == Head(cs_matches)
           code_content == SubSeq(cs_content, match.first, match.last)
           line_count == NonEmptyLineCount(code_content)
       IN  IF line_count > cs_max_lines
           THEN /\ cs_emitted' = Append(cs_emitted,
                       Finding("WARNING", "code-snippet-too-large", SnippetFile,
                               <<LineNumberAt(cs_content, match.start)>>))
                /\ cs_warnings' = cs_warnings + 1
           ELSE UNCHANGED <<cs_emitted, cs_warnings>>
    /\ cs_matches' = Tail(cs_matches)
    /\ IF cs_matches' = <<>>
       THEN cs_pc' = "done" /\ cs_result' = <<cs_warnings', 0>>
       ELSE UNCHANGED <<cs_pc, cs_result>>
    /\ UNCHANGED <<cs_file, cs_parts, cs_content, cs_max_lines, not_snippet>>

NextSnippets ==
    \/ SnippetFileNotFound
    \/ SnippetFileReadError
    \/ FindCodeBlocks
    \/ CheckCodeBlock

SpecSnippets == InitSnippets /\ [][NextSnippets]_vars

\* validate_code_snippets on documents of three parts: a fenced block, a
\* text, and a fenced block or a fence that is never closed.
FenceBodies == {<<CodeLine>>, <<CodeLine, CodeLine, CodeLine, CodeLine>>}

FenceContents ==
    {<<Block(tag, body), text, last>> :
        tag \in LanguageTags, body \in FenceBodies, text \in {TextPart, Prose},
        last \in {Block(t, b) : t \in LanguageTags, b \in FenceBodies}
                    \cup {OpenFence(t, b) : t \in LanguageTags, b \in FenceBodies}}

InitFences ==
    /\ cs_file \in {"ok", "missing", "unreadable"}
    /\ cs_parts \in FenceContents \cup {<<>>}
    /\ cs_file # "ok" => cs_parts = <<>>
    /\ cs_content = RenderParts[cs_parts]
    /\ cs_max_lines \in {1, CodeSnippetMaxLines}
    /\ cs_matches = <<>>
    /\ cs_emitted = <<>>
    /\ cs_warnings = 0
    /\ cs_pc = "start"
    /\ cs_result = <<-1, -1>>
    /\ ValidatorIdle
    /\ ExtractorIdle
    /\ LengthIdle
    /\ ReferenceIdle
    /\ LoggerIdle
    /\ AgentsIdle
    /\ MainIdle

SpecFences == InitFences /\ [][NextSnippets]_vars

(***************************************************************************)
(* FileReferenceValidator.validate_content_file_references.  The content   *)
(* is written from spans: a text between single backticks, a text between  *)
(* double backticks, or a bare text.                                       *)
(***************************************************************************)
NoInlineMatch == [start |-> 0, first |-> 0, last |-> 0]

\* Line 27, (?<!`)`(?P<link>[^`\n]+)`(?!`): the match that starts with the
\* backtick at place i. No backtick stands before it; the link runs to the
\* next backtick, with no newline on the way and at least one character;
\* no backtick follows the closing one.
InlineMatchAt(text, i) ==
    LET stop == FirstIn(text, i + 1, {Backtick, "\n"})
    IN  IF /\ text[i] = Backtick
           /\ (i > 1 => text[i - 1] # Backtick)
           /\ stop > i + 1
           /\ text[stop] = Backtick
           /\ (stop < Len(text) => text[stop + 1] # Backtick)
        THEN [start |-> i, first |-> i + 1, last |-> stop - 1]
        ELSE NoInlineMatch

\* re.finditer: the matches from left to right, none inside another
RECURSIVE InlineMatchesFrom(_, _)
InlineMatchesFrom(text, i) ==
    IF i > Len(text) THEN <<>>
    ELSE LET m == InlineMatchAt(text, i)
         IN  IF m = NoInlineMatch THEN InlineMatchesFrom(text, i + 1)
             ELSE <<m>> \o InlineMatchesFrom(text, m.last + 2)

\* The characters the class [^*?\\<>$|:\"']  of line 38 leaves out
FileLinkExcluded == {"*", "?", "\\", "<", ">", "$", "|", ":", DoubleQuote, SingleQuote}

\* Line 38, ^(?=[^*?]*\/)[^*?\\<>$|:\"']+$: a slash before which there is
\* neither * nor ?, and no excluded character in the whole link
SeemsFilePath(link) ==
    /\ \E k \in 1..Len(link) :
          /\ link[k] = Slash
          /\ \A j \in 1..(k - 1) : link[j] \notin {"*", "?"}
    /\ link # <<>>
    /\ \A k \in 1..Len(link) : link[k] \notin FileLinkExcluded

\* Everything is checked again
IsNewLinkAlways(link, file_links) == TRUE

\* Line 38: file_links.get(link) is None
IsNewLink(link, file_links) == link \notin file_links

\* base_dir / link: a link that starts with a slash replaces the base
JoinLink(base_dir, link) ==
    IF link[1] = Slash THEN PathParts(link) ELSE PathJoin(base_dir, link)

\* path.exists()
Exists(path) == IsFile(path) \/ IsDirectory(path)

\* Lines 105-108: the link exists relative to one of the base directories
ExistsInBaseDirs(base_dirs, link) ==
    \E b \in 1..Len(base_dirs) : Exists(JoinLink(base_dirs[b], link))

\* Lines 102-103: the line of the match, counted from content_start_line_number
FileLinkLineNumber(content, start_pos, content_start_line_number) ==
    Count(SubSeq(content, 1, start_pos - 1), "\n") + 1 + content_start_line_number

Span(kind, text) == [kind |-> kind, text |-> text]

\* The span as written in the content
RenderSpan(span) ==
    CASE span.kind = "single" -> <<Backtick>> \o span.text \o <<Backtick>>
      [] span.kind = "double" ->
            <<Backtick, Backtick>> \o span.text \o <<Backtick, Backtick>>
      [] OTHER -> span.text

RenderSpans[spans \in Seq([kind : STRING, text : Seq(STRING)]), sep \in Seq(STRING)] ==
    IF spans = <<>> THEN <<>>
    ELSE IF Len(spans) = 1 THEN RenderSpan(Head(spans))
    ELSE RenderSpan(Head(spans)) \o sep \o RenderSpans[Tail(spans), sep]

LinkAssetsFile == Str(<<Seg_assets, Seg_file_txt>>)
LinkSubGuide == Str(<<Seg_sub, Seg_guide_md>>)
LinkAbsAssetsFile == <<Slash>> \o Str(<<Seg_p, Seg_assets, Seg_file_txt>>)
LinkDocsDir == Str(<<Seg_docs>>) \o <<Slash>>
LinkMissing == Str(<<Seg_assets, Seg_x>>)
LinkMissingToo == Str(<<Seg_dir, Seg_x>>)
LinkBareName == Seg_file_txt
LinkWildcard == Str(<<Seg_assets, <<"*">>>>)
LinkWithColon == Str(<<Seg_x, <<":", "x">>>>)

InlineLinks ==
    {LinkAssetsFile, LinkSubGuide, LinkAbsAssetsFile, LinkDocsDir, LinkMissing,
     LinkMissingToo, LinkBareName, LinkWildcard, LinkWithColon}

Spans ==
    {Span("single", l) : l \in InlineLinks}
        \cup {Span("double", LinkMissing), Span("text", LinkMissing)}

SpanSeparators == {<<"\n">>, <<" ">>, <<>>}

\* One span, two spans, or a span, another one and the first again
SpanSequences ==
    {<<a>> : a \in Spans}
        \cup {<<a, b>> : a \in Spans, b \in Spans}
        \cup {<<a, b, a>> : a \in Spans, b \in Spans}

DocsDir == <<Seg_p, Seg_docs>>

BaseDirs == {<<ProjectDir>>, <<DocsDir>>, <<DocsDir, ProjectDir>>, <<>>}

\* project_dir: the directory of the file, the root above it, and a
\* directory the file is not in
ProjectDirChoices == {ProjectDir, <<>>, DocsDir}

InitReferences ==
    /\ fr_items \in SpanSequences
    /\ fr_separator \in SpanSeparators
    /\ fr_content = RenderSpans[fr_items, fr_separator]
    /\ fr_base_dirs \in BaseDirs
    /\ fr_start_line \in {1, 5}
    /\ fr_base_dirs # <<ProjectDir>> => fr_start_line = 1 /\ fr_separator = <<"\n">>
    /\ fr_file = ReadmeMd
    /\ fr_project_dir \in ProjectDirChoices
    /\ fr_project_dir # ProjectDir =>
          fr_base_dirs = <<ProjectDir>> /\ fr_start_line = 1 /\ fr_separator = <<"\n">>
    /\ fr_matches = <<>>
    /\ fr_file_links = {}
    /\ fr_checked = <<>>
    /\ fr_emitted = <<>>
    /\ fr_error_count = 0
    /\ fr_pc = "start"
    /\ fr_result = <<-1, -1>>
    /\ ValidatorIdle
    /\ ExtractorIdle
    /\ LengthIdle
    /\ SnippetIdle
    /\ LoggerIdle
    /\ AgentsIdle
    /\ MainIdle

\* Lines 33 and 115, file.relative_to(project_dir), as a string
ReportedFile(file, project_dir) == PathStr(RelativeTo(file, project_dir))

\* Lines 24-27: the matches of the pattern; none returns (0, 0).
FindFileLinks ==
    /\ fr_pc = "start"
    /\ fr_matches' = InlineMatchesFrom(fr_content, 1)
    /\ IF fr_matches' = <<>>
       THEN fr_pc' = "done" /\ fr_result' = <<0, 0>>
       ELSE fr_pc' = "links" /\ UNCHANGED fr_result
    /\ UNCHANGED <<fr_items, fr_separator, fr_content, fr_base_dirs, fr_file,
                   fr_project_dir, fr_start_line, fr_file_links, fr_checked,
                   fr_emitted, fr_error_count, not_reference>>

\* Lines 27-47 and 91-118: one turn of the loop over the matches, and after
\* the last one the return of line 49. file.relative_to(project_dir) is
\* evaluated for the first logRule call of the turn: when the file is not
\* below project_dir it raises ValueError, which nothing catches.
CheckFileLink ==
    /\ fr_pc = "links"
    /\ IF ~IsRelativeTo(fr_file, fr_project_dir)
       THEN /\ fr_pc' = "raised"
            /\ UNCHANGED <<fr_matches, fr_file_links, fr_checked, fr_emitted,
                           fr_error_count, fr_result>>
       ELSE /\ LET m == Head(fr_matches)
                   link == SubSeq(fr_content, m.first, m.last)
                   file == ReportedFile(fr_file, fr_project_dir)
                   found == Finding("DEBUG", "file-link-found", file, NoLine)
                   not_found == Finding("ERROR", "file-link-not-found", file,
                           <<FileLinkLineNumber(fr_content, m.start, fr_start_line)>>)
               IN  IF SeemsFilePath(link) /\ IsNewLink(link, fr_file_links)
                   THEN /\ fr_file_links' = fr_file_links \cup {link}
                        /\ fr_checked' = Append(fr_checked, link)
                        /\ IF ExistsInBaseDirs(fr_base_dirs, link)
                           THEN /\ fr_emitted' = Append(fr_emitted, found)
                                /\ UNCHANGED fr_error_count
                           ELSE /\ fr_emitted' = fr_emitted \o <<found, not_found>>
                                /\ fr_error_count' = fr_error_count + 1
                   ELSE /\ fr_emitted' = Append(fr_emitted, found)
                        /\ UNCHANGED <<fr_file_links, fr_checked, fr_error_count>>
            /\ fr_matches' = Tail(fr_matches)
            /\ IF fr_matches' = <<>>
               THEN fr_pc' = "done" /\ fr_result' = <<0, fr_error_count'>>
               ELSE UNCHANGED <<fr_pc, fr_result>>
    /\ UNCHANGED <<fr_items, fr_separator, fr_content, fr_base_dirs, fr_file,
                   fr_project_dir, fr_start_line, not_reference>>

NextReferences ==
    \/ FindFileLinks
    \/ CheckFileLink

SpecReferences == InitReferences /\ [][NextReferences]_vars

(***************************************************************************)
(* Logger, as a run of the program uses it: created with the defaults,     *)
(* configured by set_level and set_format before the validators run, given *)
(* the findings by logRule, and flushed by the caller at the end.          *)
(***************************************************************************)
AllLogLevels == {"ERROR", "WARNING", "INFO", "DEBUG"}

\* LogLevel.value
LogLevelValue(lvl) ==
    CASE lvl = "ERROR" -> 0
      [] lvl = "WARNING" -> 1
      [] lvl = "INFO" -> 2
      [] lvl = "DEBUG" -> 3

LogFormats == {"logfmt", "file-digest", "yaml"}

LogRules == {"rule-a", "rule-b"}

RuleMessage(lvl, rule) == [level |-> lvl, rule |-> rule]

\* The most logRule calls of a run.
MaxLogCalls == 3

\* ai_linter.py line 34: Logger(LogLevel.INFO, LogFormat.FILE_DIGEST)
InitLogger ==
    /\ lg_level = "INFO"
    /\ lg_format = "file-digest"
    /\ lg_messages = <<>>
    /\ lg_printed = <<>>
    /\ lg_op = "none"
    /\ lg_calls = 0
    /\ lg_pc = "created"
    /\ lg_arg = NoArg
    /\ lg_accepted = <<>>
    /\ ValidatorIdle
    /\ ExtractorIdle
    /\ LengthIdle
    /\ SnippetIdle
    /\ ReferenceIdle
    /\ AgentsIdle
    /\ MainIdle

\* Lines 50-54, called at ai_linter.py line 117.
SetLevel ==
    /\ lg_pc = "created"
    /\ \E lvl \in AllLogLevels : lg_level' = lvl
    /\ lg_op' = "set_level"
    /\ lg_pc' = "level_set"
    /\ UNCHANGED <<lg_format, lg_messages, lg_printed, lg_calls, lg_arg,
                   lg_accepted, not_logger>>

\* Lines 56-59, called at ai_linter.py line 118.
SetFormat ==
    /\ lg_pc = "level_set"
    /\ \E format \in LogFormats : lg_format' = format
    /\ lg_op' = "set_format"
    /\ lg_pc' = "validating"
    /\ UNCHANGED <<lg_level, lg_messages, lg_printed, lg_calls, lg_arg,
                   lg_accepted, not_logger>>

\* The list after a logRule call that leaves only the new finding in it
KeepLast(messages, message) == <<message>>

\* Lines 131-141: self.messages.append(RuleMessage(...))
AppendMessage(messages, message) == Append(messages, message)

\* A flush that prints the list and keeps it
FlushKeepsMessages(messages, printed) ==
    [messages |-> messages, printed |-> printed \o messages]

\* Lines 147-154: what flush leaves of the list and what it has printed.
FlushMessages(messages, printed) ==
    IF messages = <<>>
    THEN [messages |-> messages, printed |-> printed]
    ELSE [messages |-> <<>>, printed |-> printed \o messages]

\* The test that also drops a finding at the level of the logger
IsFilteredOutAtLevel(lvl, threshold) == LogLevelValue(lvl) >= LogLevelValue(threshold)

\* Lines 82-83 and 125-126: level.value > self.level.value
IsFilteredOut(lvl, threshold) == LogLevelValue(lvl) > LogLevelValue(threshold)

\* Lines 103-145, logRule(level, rule, ...): the list, what has been
\* printed and what has been accepted after the call. A finding below the
\* level is dropped; another one is appended, and under logfmt the list is
\* flushed at once.
LogRuleCall(lvl, rule) ==
    IF IsFilteredOut(lvl, lg_level)
    THEN [messages |-> lg_messages, printed |-> lg_printed, accepted |-> lg_accepted]
    ELSE LET appended == AppendMessage(lg_messages, RuleMessage(lvl, rule))
             flushed == FlushMessages(appended, lg_printed)
             accepted == Append(lg_accepted, RuleMessage(lvl, rule))
         IN  IF lg_format = "logfmt"
             THEN [messages |-> flushed.messages, printed |-> flushed.printed,
                   accepted |-> accepted]
             ELSE [messages |-> appended, printed |-> lg_printed,
                   accepted |-> accepted]

\* A logRule call of a validator.
LogRule ==
    /\ lg_pc = "validating"
    /\ lg_calls < MaxLogCalls
    /\ \E lvl \in AllLogLevels, rule \in LogRules :
          /\ lg_messages' = LogRuleCall(lvl, rule).messages
          /\ lg_printed' = LogRuleCall(lvl, rule).printed
          /\ lg_accepted' = LogRuleCall(lvl, rule).accepted
          /\ lg_arg' = RuleMessage(lvl, rule)
    /\ lg_op' = "logRule"
    /\ lg_calls' = lg_calls + 1
    /\ UNCHANGED <<lg_level, lg_format, lg_pc, not_logger>>

GeneralMessage == "<general>"

\* Lines 70-101, log(level, message): the message goes to the general
\* handler when it passes the level test; self.messages is not touched.
Log ==
    /\ lg_pc = "validating"
    /\ lg_calls < MaxLogCalls
    /\ \E lvl \in AllLogLevels : lg_arg' = RuleMessage(lvl, GeneralMessage)
    /\ lg_op' = "log"
    /\ lg_calls' = lg_calls + 1
    /\ UNCHANGED <<lg_level, lg_format, lg_messages, lg_printed, lg_accepted,
                   lg_pc, not_logger>>

\* ai_linter.py line 223: the caller's logger.flush() after the validators.
Flush ==
    /\ lg_pc = "validating"
    /\ LET flushed == FlushMessages(lg_messages, lg_printed)
       IN  /\ lg_messages' = flushed.messages
           /\ lg_printed' = flushed.printed
    /\ lg_op' = "flush"
    /\ lg_pc' = "reported"
    /\ UNCHANGED <<lg_level, lg_format, lg_calls, lg_arg, lg_accepted, not_logger>>

NextLogger ==
    \/ SetLevel
    \/ SetFormat
    \/ LogRule
    \/ Log
    \/ Flush

SpecLogger == InitLogger /\ [][NextLogger]_vars

(***************************************************************************)
(* Logger as a class: set_level, set_format, logRule and flush called in   *)
(* any order on a logger made with the defaults.                           *)
(***************************************************************************)
\* The most calls made on the logger.
MaxApiCalls == 4

\* Lines 33-36: Logger()
InitLoggerApi ==
    /\ lg_level = "INFO"
    /\ lg_format = "file-digest"
    /\ lg_messages = <<>>
    /\ lg_printed = <<>>
    /\ lg_op = "none"
    /\ lg_calls = 0
    /\ lg_pc = "api"
    /\ lg_arg = NoArg
    /\ lg_accepted = <<>>
    /\ ValidatorIdle
    /\ ExtractorIdle
    /\ LengthIdle
    /\ SnippetIdle
    /\ ReferenceIdle
    /\ AgentsIdle
    /\ MainIdle

\* Lines 50-54.
ApiSetLevel ==
    /\ lg_pc = "api"
    /\ lg_calls < MaxApiCalls
    /\ \E lvl \in AllLogLevels : lg_level' = lvl
    /\ lg_op' = "set_level"
    /\ lg_calls' = lg_calls + 1
    /\ UNCHANGED <<lg_format, lg_messages, lg_printed, lg_pc, lg_arg,
                   lg_accepted, not_logger>>

\* Lines 56-59.
ApiSetFormat ==
    /\ lg_pc = "api"
    /\ lg_calls < MaxApiCalls
    /\ \E format \in LogFormats : lg_format' = format
    /\ lg_op' = "set_format"
    /\ lg_calls' = lg_calls + 1
    /\ UNCHANGED <<lg_level, lg_messages, lg_printed, lg_pc, lg_arg,
                   lg_accepted, not_logger>>

\* Lines 103-145.
ApiLogRule ==
    /\ lg_pc = "api"
    /\ lg_calls < MaxApiCalls
    /\ \E lvl \in AllLogLevels, rule \in LogRules :
          /\ lg_messages' = LogRuleCall(lvl, rule).messages
          /\ lg_printed' = LogRuleCall(lvl, rule).printed
          /\ lg_accepted' = LogRuleCall(lvl, rule).accepted
          /\ lg_arg' = RuleMessage(lvl, rule)
    /\ lg_op' = "logRule"
    /\ lg_calls' = lg_calls + 1
    /\ UNCHANGED <<lg_level, lg_format, lg_pc, not_logger>>

\* Lines 147-154.
ApiFlush ==
    /\ lg_pc = "api"
    /\ lg_calls < MaxApiCalls
    /\ LET flushed == FlushMessages(lg_messages, lg_printed)
       IN  /\ lg_messages' = flushed.messages
           /\ lg_printed' = flushed.printed
    /\ lg_op' = "flush"
    /\ lg_calls' = lg_calls + 1
    /\ UNCHANGED <<lg_level, lg_format, lg_pc, lg_arg, lg_accepted, not_logger>>

NextLoggerApi ==
    \/ ApiSetLevel
    \/ ApiSetFormat
    \/ ApiLogRule
    \/ ApiFlush

SpecLoggerApi == InitLoggerApi /\ [][NextLoggerApi]_vars

(***************************************************************************)
(* PromptAgentValidator.__init__ and validate_agents_md_exists             *)
(***************************************************************************)
\* A string argument, or a member of the LogLevel enumeration as load_config
\* stores it in config.missing_agents_file_level.
StrArg(s) == [kind |-> "str", value |-> s]

EnumArg(l) == [kind |-> "enum", value |-> l]

MissingAgentsLevelArgs ==
    {StrArg(s) : s \in {"ERROR", "WARNING", "INFO", "DEBUG", "error"}}
        \cup {EnumArg(l) : l \in AllLogLevels}

\* missing_agents_level in ["ERROR", "WARNING", "INFO"]: a member of the
\* enumeration is equal to no string.
InLevelNames(arg) ==
    arg.kind = "str" /\ arg.value \in {"ERROR", "WARNING", "INFO"}

\* LogLevel.from_string on the values the constructor hands it.
FromString(arg) ==
    IF arg.kind = "enum" THEN arg.value
    ELSE IF arg.value \in {"ERROR", "error"} THEN "ERROR"
    ELSE IF arg.value = "WARNING" THEN "WARNING"
    ELSE IF arg.value = "DEBUG" THEN "DEBUG"
    ELSE "INFO"

MissingAgentsLevel(arg) ==
    IF InLevelNames(arg) THEN FromString(arg) ELSE "WARNING"

InitAgents ==
    /\ ag_arg \in MissingAgentsLevelArgs
    /\ ag_level = "none"
    /\ ag_project_dir \in ProjectDirChoices
    /\ ag_exists \in BOOLEAN
    /\ ag_emitted = <<>>
    /\ ag_result = <<0, 0>>
    /\ ag_pc = "new"
    /\ ValidatorIdle
    /\ ExtractorIdle
    /\ LengthIdle
    /\ SnippetIdle
    /\ ReferenceIdle
    /\ LoggerIdle
    /\ MainIdle

NewPromptAgentValidator ==
    /\ ag_pc = "new"
    /\ ag_level' = MissingAgentsLevel(ag_arg)
    /\ ag_pc' = "constructed"
    /\ UNCHANGED <<ag_arg, ag_project_dir, ag_exists, ag_emitted, ag_result>>
    /\ UNCHANGED not_agents

ValidateAgentsMdExists ==
    /\ ag_pc = "constructed"
    /\ IF ~ag_exists
       THEN /\ ag_emitted' = Append(ag_emitted,
                                    Finding(ag_level, "agents-file-missing",
                                            PathStr(ag_project_dir), <<>>))
            /\ ag_result' = IF ag_level = "ERROR" THEN <<0, 1>>
                            ELSE IF ag_level = "WARNING" THEN <<1, 0>>
                            ELSE <<0, 0>>
       ELSE /\ ag_emitted' = ag_emitted
            /\ ag_result' = <<0, 0>>
    /\ ag_pc' = "done"
    /\ UNCHANGED <<ag_arg, ag_level, ag_project_dir, ag_exists>>
    /\ UNCHANGED not_agents

NextAgents ==
    \/ NewPromptAgentValidator
    \/ ValidateAgentsMdExists

SpecAgents == InitAgents /\ [][NextAgents]_vars

(***************************************************************************)
(* main                                                                    *)
(***************************************************************************)
\* The most skill directories and project directories of a run, and the most
\* findings of one severity a validator call counts.
MaxSkillDirs == 2

MaxProjectDirs == 2

MaxCount == 1

Finite(n) == [finite |-> TRUE, value |-> n]

MaxWarningsChoices == {Infinite} \cup {Finite(n) : n \in 0..MaxCount}

\* total_warnings <= max_warnings
WithinBudget(total, max) == ~max.finite \/ total <= max.value

\* The (warnings, errors) pair a validator call returns. Every validator
\* adds one to its error count with each ERROR finding it emits.
ValidatorResults == (0..MaxCount) \X (0..MaxCount)

InitMain ==
    /\ mn_skills \in BOOLEAN
    /\ mn_missing_dir \in BOOLEAN
    /\ mn_skill_dirs \in 0..MaxSkillDirs
    /\ mn_project_dirs \in 0..MaxProjectDirs
    /\ ~mn_skills => (mn_skill_dirs = 0 /\ mn_project_dirs >= 1)
    /\ mn_skill_dirs = 0 => (mn_skills => mn_project_dirs = 0)
    /\ mn_skill_dirs > 0 => mn_project_dirs >= 1
    /\ mn_max_warnings \in MaxWarningsChoices
    /\ mn_total_warnings = 0
    /\ mn_total_errors = 0
    /\ mn_i = 0
    /\ mn_warning_findings = 0
    /\ mn_error_findings = 0
    /\ mn_flushed = FALSE
    /\ mn_status = NoStatus
    /\ mn_pc = "start"
    /\ ValidatorIdle
    /\ ExtractorIdle
    /\ LengthIdle
    /\ SnippetIdle
    /\ ReferenceIdle
    /\ LoggerIdle
    /\ AgentsIdle

\* total_warnings += nb_warnings; total_errors += nb_errors
AddFirstOnly(totals, nb) == <<totals[1] + nb[1], totals[2]>>

AddTotals(totals, nb) == <<totals[1] + nb[1], totals[2] + nb[2]>>

\* A validator call and the two additions that follow it.
Aggregate(nb) ==
    /\ mn_total_warnings' = AddTotals(<<mn_total_warnings, mn_total_errors>>, nb)[1]
    /\ mn_total_errors' = AddTotals(<<mn_total_warnings, mn_total_errors>>, nb)[2]
    /\ mn_warning_findings' = mn_warning_findings + nb[1]
    /\ mn_error_findings' = mn_error_findings + nb[2]

\* Lines 138-145: a directory that does not exist ends the run.
DirectoryMissing ==
    /\ mn_pc = "start"
    /\ mn_missing_dir
    /\ mn_status' = 1
    /\ mn_pc' = "aborted"
    /\ UNCHANGED <<mn_skills, mn_missing_dir, mn_skill_dirs, mn_project_dirs,
                   mn_max_warnings, mn_total_warnings, mn_total_errors, mn_i,
                   mn_warning_findings, mn_error_findings, mn_flushed>>
    /\ UNCHANGED not_main

\* Lines 138-182: the directories are collected and the totals start at 0.
CollectDirectories ==
    /\ mn_pc = "start"
    /\ ~mn_missing_dir
    /\ mn_pc' = IF mn_skills /\ mn_skill_dirs > 0 THEN "skills" ELSE "agents"
    /\ UNCHANGED <<mn_skills, mn_missing_dir, mn_skill_dirs, mn_project_dirs,
                   mn_max_warnings, mn_total_warnings, mn_total_errors, mn_i,
                   mn_warning_findings, mn_error_findings, mn_flushed, mn_status>>
    /\ UNCHANGED not_main

\* Lines 185-194: process_skills.process_skill for one skill directory.
ProcessSkill ==
    /\ mn_pc = "skills"
    /\ \E nb \in ValidatorResults : Aggregate(nb)
    /\ mn_i' = IF mn_i + 1 < mn_skill_dirs THEN mn_i + 1 ELSE 0
    /\ mn_pc' = IF mn_i + 1 < mn_skill_dirs THEN "skills" ELSE "agents"
    /\ UNCHANGED <<mn_skills, mn_missing_dir, mn_skill_dirs, mn_project_dirs,
                   mn_max_warnings, mn_flushed, mn_status>>
    /\ UNCHANGED not_main

\* Lines 196-200: process_agents.process_agents for all project directories.
ProcessAgents ==
    /\ mn_pc = "agents"
    /\ \E nb \in ValidatorResults : Aggregate(nb)
    /\ mn_i' = 0
    /\ mn_pc' = IF mn_project_dirs > 0 THEN "snippets" ELSE "flush"
    /\ UNCHANGED <<mn_skills, mn_missing_dir, mn_skill_dirs, mn_project_dirs,
                   mn_max_warnings, mn_flushed, mn_status>>
    /\ UNCHANGED not_main

\* Lines 203-214: code_snippet_validator.validate_all_markdown_files.
ValidateAllMarkdownFiles ==
    /\ mn_pc = "snippets"
    /\ \E nb \in ValidatorResults : Aggregate(nb)
    /\ mn_pc' = "prompts"
    /\ UNCHANGED <<mn_skills, mn_missing_dir, mn_skill_dirs, mn_project_dirs,
                   mn_max_warnings, mn_i, mn_flushed, mn_status>>
    /\ UNCHANGED not_main

\* Lines 216-221: prompt_agent_validator.validate_prompt_agent_directories.
ValidatePromptAgentDirectories ==
    /\ mn_pc = "prompts"
    /\ \E nb \in ValidatorResults : Aggregate(nb)
    /\ mn_i' = IF mn_i + 1 < mn_project_dirs THEN mn_i + 1 ELSE 0
    /\ mn_pc' = IF mn_i + 1 < mn_project_dirs THEN "snippets" ELSE "flush"
    /\ UNCHANGED <<mn_skills, mn_missing_dir, mn_skill_dirs, mn_project_dirs,
                   mn_max_warnings, mn_flushed, mn_status>>
    /\ UNCHANGED not_main

\* Line 223: logger.flush()
FlushFindings ==
    /\ mn_pc = "flush"
    /\ mn_flushed' = TRUE
    /\ mn_pc' = "decide"
    /\ UNCHANGED <<mn_skills, mn_missing_dir, mn_skill_dirs, mn_project_dirs,
                   mn_max_warnings, mn_total_warnings, mn_total_errors, mn_i,
                   mn_warning_findings, mn_error_findings, mn_status>>
    /\ UNCHANGED not_main

\* Line 238: sys.exit(0 if total_errors == 0 and total_warnings <= max_warnings else 1)
ExitStatus(total_warnings, total_errors, max_warnings) ==
    IF total_errors = 0 /\ WithinBudget(total_warnings, max_warnings) THEN 0 ELSE 1

Exit ==
    /\ mn_pc = "decide"
    /\ mn_status' = ExitStatus(mn_total_warnings, mn_total_errors, mn_max_warnings)
    /\ mn_pc' = "exited"
    /\ UNCHANGED <<mn_skills, mn_missing_dir, mn_skill_dirs, mn_project_dirs,
                   mn_max_warnings, mn_total_warnings, mn_total_errors, mn_i,
                   mn_warning_findings, mn_error_findings, mn_flushed>>
    /\ UNCHANGED not_main

NextMain ==
    \/ DirectoryMissing
    \/ CollectDirectories
    \/ ProcessSkill
    \/ ProcessAgents
    \/ ValidateAllMarkdownFiles
    \/ ValidatePromptAgentDirectories
    \/ FlushFindings
    \/ Exit

SpecMain == InitMain /\ [][NextMain]_vars

\* validate_unreferenced_files called with any directory as relative_to:
\* the project root, a directory above it, or a directory that holds
\* neither the project root nor its resource files.
AnyRelativeTo == RelativeToChoices \cup {DocsDir}

InitAnyBase ==
    /\ markdown_file = ReadmeMd
    /\ markdown_content \in EntryContents
    /\ relative_to \in AnyRelativeTo
    /\ level \in LogLevels
    /\ unreadable = {}
    /\ resource_dirs = ResourceDirs
    /\ ignore_dirs = IgnoreDirs
    /\ pc = "start"
    /\ refs = {}
    /\ todo = {}
    /\ all_referenced_files = {}
    /\ resolved_log = {}
    /\ reads = [f \in MarkdownFiles |-> 0]
    /\ emitted = <<>>
    /\ warnings = 0
    /\ errors = 0
    /\ dir_index = 1
    /\ scan_todo = {}
    /\ result = NoResult
    /\ ExtractorIdle
    /\ LengthIdle
    /\ SnippetIdle
    /\ ReferenceIdle
    /\ LoggerIdle
    /\ AgentsIdle
    /\ MainIdle

SpecAnyBase == InitAnyBase /\ [][Next]_vars

\* validate_unreferenced_files on documents that may also hold a reference
\* whose last characters, and not its last segments, are those of a
\* resource file: myassets/file.txt against assets/file.txt.
Seg_myassets == <<"m", "y">> \o Seg_assets

RefMyAssetsFile == Str(<<Seg_myassets, Seg_file_txt>>)

SuffixContents ==
    {c \in SUBSET (EntryPool \cup {Link(RefMyAssetsFile)}) : Cardinality(c) <= MaxRefs}

InitSuffix ==
    /\ markdown_file = ReadmeMd
    /\ markdown_content \in SuffixContents
    /\ relative_to \in RelativeToChoices
    /\ level \in LogLevels
    /\ unreadable = {}
    /\ resource_dirs = ResourceDirs
    /\ ignore_dirs = IgnoreDirs
    /\ pc = "start"
    /\ refs = {}
    /\ todo = {}
    /\ all_referenced_files = {}
    /\ resolved_log = {}
    /\ reads = [f \in MarkdownFiles |-> 0]
    /\ emitted = <<>>
    /\ warnings = 0
    /\ errors = 0
    /\ dir_index = 1
    /\ scan_todo = {}
    /\ result = NoResult
    /\ ExtractorIdle
    /\ LengthIdle
    /\ SnippetIdle
    /\ ReferenceIdle
    /\ LoggerIdle
    /\ AgentsIdle
    /\ MainIdle

SpecSuffix == InitSuffix /\ [][Next]_vars

(***************************************************************************)
(* What the claims speak of                                                *)
(***************************************************************************)
\* The validation has returned.
Returned == pc = "done"

\* The names of the ignored directories
IgnoredNames == {ignore_dirs[j][Len(ignore_dirs[j])] : j \in 1..Len(ignore_dirs)}

\* The resource files the scan reaches: below one of the resource
\* directories, no segment of the path being an ignored name.
ScannedFiles ==
    {f \in Files :
        /\ \E i \in 1..Len(resource_dirs) :
              IsRelativeTo(f, ProjectDir \o resource_dirs[i])
        /\ \A k \in 1..Len(f) : f[k] \notin IgnoredNames}

ProjectRelative(f) == PathStr(SubSeq(f, Len(ProjectDir) + 1, Len(f)))

\* s ends with t, by comparing the last characters one by one
IsEnding(t, s) ==
    /\ Len(t) <= Len(s)
    /\ \A k \in 1..Len(t) : s[Len(s) - Len(t) + k] = t[k]

\* A file is matched: its project-relative path is a reference of the set
\* or the ending of one.
Matched(f) ==
    \/ ProjectRelative(f) \in all_referenced_files
    \/ \E ref \in all_referenced_files : IsEnding(ProjectRelative(f), ref)

Unmatched == {f \in ScannedFiles : ~Matched(f)}

\* The unreferenced-resource-file findings emitted for a file
UnreferencedFindings(f) ==
    {i \in 1..Len(emitted) :
        /\ emitted[i].rule = "unreferenced-resource-file"
        /\ emitted[i].file = PathStr(SubSeq(f, Len(relative_to) + 1, Len(f)))}

AllUnreferencedFindings ==
    {i \in 1..Len(emitted) : emitted[i].rule = "unreferenced-resource-file"}

\* C1: when the validation has returned, every scanned resource file that
\* is not matched by equality or by ending against the reference set has
\* exactly one unreferenced-resource-file finding, a matched file has none,
\* and no other such finding exists; at no time does a file have two.
C1_Completeness ==
    /\ \A f \in Files : Cardinality(UnreferencedFindings(f)) <= 1
    /\ Returned =>
         /\ \A f \in ScannedFiles :
               Cardinality(UnreferencedFindings(f)) = IF Matched(f) THEN 0 ELSE 1
         /\ Cardinality(AllUnreferencedFindings) = Cardinality(Unmatched)

\* A run where one file is matched only as the ending of a longer reference
\* and another file is reported.
C1_Witness ==
    /\ Returned
    /\ \E f \in ScannedFiles :
          /\ Matched(f)
          /\ ProjectRelative(f) \notin all_referenced_files
          /\ UnreferencedFindings(f) = {}
    /\ \E g \in ScannedFiles : ~Matched(g) /\ Cardinality(UnreferencedFindings(g)) = 1

\* C2: the pair returned is (0, n) at level ERROR and (n, 0) at level
\* WARNING, n being the number of unreferenced resource files.
C2_Totals ==
    Returned =>
        /\ level = "ERROR" => result = <<0, Cardinality(Unmatched)>>
        /\ level = "WARNING" => result = <<Cardinality(Unmatched), 0>>

\* A run at level WARNING that reports the two resource files.
C2_Witness ==
    /\ Returned
    /\ level = "WARNING"
    /\ Cardinality(Unmatched) = 2
    /\ result = <<2, 0>>

\* The strings between the slashes of a string
Pieces(str) == {Split(str, Slash)[k] : k \in 1..Len(Split(str, Slash))}

\* A project-root-relative path without "." or ".." segment
IsCanonical(str) ==
    /\ str # <<>>
    /\ Head(str) # Slash
    /\ \A piece \in Pieces(str) : piece \notin {<<>>, DotSeg, DotDotSeg}

\* The place a reference denotes, whatever its spelling: the segments of the
\* reference taken from the project root (leading "/") or from the
\* directory of its file, ".." leaving the directory reached so far.
Target(ref, file) ==
    Resolve((IF Head(ref) = Slash THEN ProjectDir ELSE Parent(file))
            \o PathParts(ref))

EscapesRoot(ref, file) == ~IsRelativeTo(Target(ref, file), ProjectDir)

\* C3: every string of the reference set is a project-root-relative path
\* without "." or ".." segment, for references with and without a leading
\* "/", and a reference whose resolution escapes the project root adds
\* nothing.
C3_CanonicalInsideRoot ==
    /\ \A c \in all_referenced_files : IsCanonical(c)
    /\ \A entry \in resolved_log :
          EscapesRoot(entry[1], entry[2]) => entry[3] = Discarded

\* The spellings of assets/file.txt in a document of the project root
SpellingsOfAssetsFile ==
    { RefAssetsFile, RefDotAssetsFile, RefDirUpAssetsFile,
      RefAbsAssetsFile, RefAbsDotAssetsFile, RefAbsDirUpAssetsFile }

\* C4: in a document of the project root, ./assets/file.txt,
\* assets/file.txt, dir/../assets/file.txt and their leading-slash forms
\* all add the one string assets/file.txt.
C4_SpellingsAgree ==
    \A entry \in resolved_log :
        (entry[2] = ReadmeMd /\ entry[1] \in SpellingsOfAssetsFile)
            => entry[3] = RefAssetsFile

\* A reference without empty, "." or ".." piece
IsPlain(ref) == \A piece \in Pieces(LStripSlash(ref)) : piece \notin {<<>>, DotSeg, DotDotSeg}

\* The absolute path of a file's directory, as a string
DirStr(file) == <<Slash>> \o JoinSegments(Parent(file))

\* C5: a reference with a leading "/" is taken from the project root with
\* the slash stripped, any other from the directory of the file it stands
\* in; ../../assets/file.txt in docs/sub/guide.md gives assets/file.txt, and
\* references/test.txt referenced as /references/test.txt, or as
\* ../references/test.txt from docs/guide.md, is not reported.
C5_ResolutionBase ==
    /\ \A entry \in resolved_log :
          LET ref == entry[1]
              file == entry[2]
              canonical == entry[3]
          IN  /\ (Head(ref) = Slash /\ IsPlain(ref)) => canonical = LStripSlash(ref)
              /\ (Head(ref) # Slash /\ IsPlain(ref)) =>
                    DirStr(file) \o <<Slash>> \o ref
                        = DirStr(ProjectDir \o <<Seg_x>>) \o <<Slash>> \o canonical
              /\ (ref = RefUpUpAssetsFile /\ file = SubGuideMd) =>
                    canonical = RefAssetsFile
              /\ (ref = RefUpReferencesTest /\ file = DocsGuideMd) =>
                    canonical = RefReferencesTest
    /\ (/\ Returned
        /\ \/ RefAbsReferencesTest \in refs
           \/ RefUpReferencesTest \in refs /\ markdown_file = DocsGuideMd)
          => UnreferencedFindings(ReferencesTest) = {}

\* docs/sub/guide.md holds ../../assets/file.txt, docs/guide.md would hold
\* ../references/test.txt: here the first, resolved and matched.
C5_Witness ==
    /\ Returned
    /\ markdown_file = SubGuideMd
    /\ <<RefUpUpAssetsFile, SubGuideMd, RefAssetsFile>> \in resolved_log
    /\ RefAbsReferencesTest \in refs
    /\ emitted = <<>>

\* C6: for a reference whose resolution lands inside the project root,
\* resolving the string it added, as a reference of a document of the
\* project root, adds the same string again.
C6_Idempotent ==
    \A entry \in resolved_log :
        (~EscapesRoot(entry[1], entry[2]) /\ entry[3] # Discarded)
            => CanonicalReference(entry[3], ReadmeMd) = entry[3]

\* The loop over the nested markdown files has ended.
NestedFollowed == pc \in {"resource_dirs", "resource_files", "done"}

\* The markdown references of the entry document that name a file
MdReferencesTo(f) ==
    {r \in ExtractFileReferences(markdown_content) :
        /\ IsEnding(MdSuffix, r)
        /\ Target(r, markdown_file) = f}

\* The markdown files the entry document references directly
DirectlyReferenced == {f \in MarkdownFiles : MdReferencesTo(f) # {}}

\* C7: only markdown files the entry document references directly are
\* read, and every string of the reference set comes from a reference of
\* the entry content or of a file the entry references directly: what is
\* reachable only through another markdown file is never added.
C7_OneHop ==
    /\ \A f \in MarkdownFiles : reads[f] > 0 => MdReferencesTo(f) # {}
    /\ \A c \in all_referenced_files :
          \E entry \in resolved_log :
             /\ entry[3] = c
             /\ \/ /\ entry[2] = markdown_file
                   /\ entry[1] \in ExtractFileReferences(markdown_content)
                \/ /\ MdReferencesTo(Resolve(entry[2])) # {}
                   /\ entry[1] \in ExtractFileReferences(FileContent(Resolve(entry[2])))

\* README.md references docs/nested.md, which references deep.md, which
\* alone references ../references/test.txt: deep.md is not read and
\* references/test.txt is reported.
C7_Witness ==
    /\ Returned
    /\ markdown_file = ReadmeMd
    /\ refs = {RefDocsNested}
    /\ Link(RefDeep) \in NestedContent
    /\ Link(RefUpReferencesTest) \in DeepContent
    /\ reads[NestedMd] = 1
    /\ reads[DeepMd] = 0
    /\ RefReferencesTest \notin all_referenced_files
    /\ Cardinality(UnreferencedFindings(ReferencesTest)) = 1

\* C8: once the nested files are followed, every relative reference of a
\* readable markdown file the entry references directly is in the reference
\* set as resolved from that file's directory, and the resource file it
\* names is not reported.
C8_NestedMerged ==
    NestedFollowed =>
        \A f \in DirectlyReferenced \ unreadable :
            \A n \in ExtractFileReferences(FileContent(f)) :
                (Head(n) # Slash /\ ~EscapesRoot(n, f)) =>
                    /\ ProjectRelative(Target(n, f)) \in all_referenced_files
                    /\ UnreferencedFindings(Target(n, f)) = {}

\* assets/file.txt is referenced by docs/nested.md alone, as
\* ../assets/file.txt, and is not reported.
C8_Witness ==
    /\ Returned
    /\ markdown_file = ReadmeMd
    /\ refs = {RefDocsNested}
    /\ NestedMd \notin unreadable
    /\ Link(RefUpAssetsFile) \in NestedContent
    /\ RefAssetsFile \in all_referenced_files
    /\ UnreferencedFindings(AssetsFile) = {}

\* C9: no markdown file is read more than once during a validation.
C9_ReadAtMostOnce == \A f \in MarkdownFiles : reads[f] <= 1

\* C9 as amended: a markdown file is read at most once for each distinct
\* reference string of the entry document that names it.
C9_ReadOncePerReference ==
    \A f \in MarkdownFiles :
        reads[f] > 0 => reads[f] <= Cardinality(MdReferencesTo(f))

\* docs/nested.md and ./docs/nested.md in README.md: docs/nested.md is read twice.
C9_Witness ==
    /\ Returned
    /\ {RefDocsNested, RefDotDocsNested} \subseteq refs
    /\ reads[NestedMd] = 2

\* C10: every validation returns, also when two markdown files reference
\* each other or a markdown file references itself.
C10_Terminates == <>Returned

\* README.md references itself and docs/nested.md, which references deep.md,
\* which references nested.md: both are read and the validation has returned.
C10_Witness ==
    /\ Returned
    /\ markdown_file = ReadmeMd
    /\ RefReadme \in refs
    /\ reads[ReadmeMd] = 1
    /\ reads[NestedMd] = 1
    /\ Link(RefDeep) \in NestedContent
    /\ Link(RefNested) \in DeepContent

\* The findings of a rule, by their place in the list
FindingsOfRule(rule) == {i \in 1..Len(emitted) : emitted[i].rule = rule}

\* The markdown references of the entry document that name no file, and
\* those that name a file whose read fails
MissingMdReferences ==
    {r \in refs : EndsWith(r, MdSuffix) /\ ~IsFile(ReferencedMd(r))}

UnreadableMdReferences ==
    {r \in refs : /\ EndsWith(r, MdSuffix)
                  /\ IsFile(ReferencedMd(r))
                  /\ Lookup(ReferencedMd(r)) \in unreadable}

\* The references of the entry document are all in the reference set.
EntryReferencesResolved ==
    \A r \in refs :
        CanonicalReference(r, markdown_file) # Discarded =>
            CanonicalReference(r, markdown_file) \in all_referenced_files

NamedByEntry == {f \in ScannedFiles : \E r \in refs : Target(r, markdown_file) = f}

\* C12: when the entry document references a markdown file that does not
\* exist, its other references are resolved all the same, no resource file
\* it names is reported, and when it names every scanned file the pair
\* returned is (0, 0) and nothing is logged.
C12_ValidStillHonored ==
    (Returned /\ MissingMdReferences # {}) =>
        /\ EntryReferencesResolved
        /\ \A f \in NamedByEntry : UnreferencedFindings(f) = {}
        /\ NamedByEntry = ScannedFiles => (result = <<0, 0>> /\ emitted = <<>>)

\* README.md holds /references/test.txt and nonexistent.md, references is
\* the one resource directory: (0, 0) is returned.
C12_Witness ==
    /\ Returned
    /\ resource_dirs = <<<<Seg_references>>>>
    /\ refs = {RefNonexistent, RefAbsReferencesTest}
    /\ level = "ERROR"
    /\ NamedByEntry = {ReferencesTest}
    /\ result = <<0, 0>>
    /\ emitted = <<>>

\* The files below the resource directories, ignored or not
ResourceFiles ==
    {f \in Files : \E i \in 1..Len(resource_dirs) :
                      IsRelativeTo(f, ProjectDir \o resource_dirs[i])}

\* C13: a file below a resource directory is left out of the scan exactly
\* when a segment of its path equals the name of an ignored directory:
\* such a file has no finding, any other is matched or has its finding;
\* scripts-git/file.txt is reported although git is ignored, and
\* references/.git/file.txt is not when .git is.
C13_IgnoreBySegment ==
    Returned =>
        /\ \A f \in ResourceFiles :
              IF \E k \in 1..Len(f) : f[k] \in IgnoredNames
              THEN UnreferencedFindings(f) = {}
              ELSE Matched(f) \/ Cardinality(UnreferencedFindings(f)) = 1
        /\ ignore_dirs = <<<<Seg_plain_git>>>> =>
              Cardinality(UnreferencedFindings(ScriptsGitFile)) = 1
        /\ Seg_git \in IgnoredNames => UnreferencedFindings(GitFile) = {}

\* scripts-git is the resource directory and git the ignored name: its file
\* is reported.
C13_Witness ==
    /\ Returned
    /\ resource_dirs = <<<<Seg_scripts_git>>>>
    /\ ignore_dirs = <<<<Seg_plain_git>>>>
    /\ Cardinality(UnreferencedFindings(ScriptsGitFile)) = 1
    /\ Len(emitted) = 1

\* extract_file_references has returned.
Extracted == doc_pc = "done"

\* The constructs of the text that are of one of the kinds
ItemsOfKind(kinds) ==
    {doc_items[k] : k \in {j \in 1..Len(doc_items) : doc_items[j].kind \in kinds}}

\* A target up to its first "#" or "?"
BeforeFragmentAndQuery(target) ==
    LET cut == FirstIn(target, 1, {"#", "?"})
    IN  IF cut = 0 THEN target ELSE SubSeq(target, 1, cut - 1)

\* The references that come from the first line of the text: the second
\* line adds its own path or nothing.
FromFirstLine == doc_references \ {OtherPath}

\* C14: the target of a markdown or image link is returned without its
\* fragment and its query, unless it begins with http://, https://, mailto:
\* or "#" or nothing is left of it, and then it adds no reference.
C14_LinkTargets ==
    Extracted =>
        \A item \in ItemsOfKind({"link", "image"}) :
            item.target # OtherPath =>
                IF \/ \E prefix \in {HttpPrefix, HttpsPrefix, MailtoPrefix, <<"#">>} :
                         StartsWith(item.target, prefix)
                   \/ BeforeFragmentAndQuery(item.target) = <<>>
                THEN FromFirstLine = {}
                ELSE FromFirstLine = {BeforeFragmentAndQuery(item.target)}

\* The image link ![t](a/b?q#f) gives a/b.
C14_Witness ==
    /\ Extracted
    /\ doc_items = <<Construct("image", TargetPath \o QueryFragmentSuffix)>>
    /\ doc_references = {TargetPath}

\* C15 as stated: the src of an img tag adds no reference when it begins
\* with http://, https://, mailto: or "#", and is returned otherwise.
C15_ImgSameExclusions ==
    Extracted =>
        \A item \in ItemsOfKind({"img", "img_single"}) :
            IF \E prefix \in {HttpPrefix, HttpsPrefix, MailtoPrefix, <<"#">>} :
                   StartsWith(item.target, prefix)
            THEN FromFirstLine = {}
            ELSE FromFirstLine = {item.target}

\* C15 as amended: the src of an img tag, in single or double quotes, adds
\* no reference when it begins with http://, https:// or data:, and any
\* other src, one that begins with mailto: or "#" too, is returned whole,
\* with its fragment and its query.
C15_ImgExclusions ==
    Extracted =>
        \A item \in ItemsOfKind({"img", "img_single"}) :
            IF \E prefix \in {HttpPrefix, HttpsPrefix, DataPrefix} :
                   StartsWith(item.target, prefix)
            THEN FromFirstLine = {}
            ELSE FromFirstLine = {item.target}

\* <img src='mailto:a/b'> gives mailto:a/b.
C15_Witness ==
    /\ Extracted
    /\ doc_items = <<Construct("img_single", MailtoPrefix \o TargetPath)>>
    /\ doc_references = {MailtoPrefix \o TargetPath}

\* The characters an inline path between backticks may not hold
InlineForbidden == {"*", "?", "\\", "<", ">", "$", "|", ":", DoubleQuote, SingleQuote}

\* What a construct adds when the four syntaxes are the inline path between
\* backticks, the link, the img src and the filePath attribute
FromFourSyntaxes(item) ==
    CASE item.kind \in {"link", "image"} -> LinkReference(item.target)
      [] item.kind \in {"img", "img_single"} -> ImgReference(item.target)
      [] item.kind \in {"attachment", "attachment_single"} -> {item.target}
      [] item.kind = "backtick" ->
            IF /\ \E k \in 1..Len(item.target) : item.target[k] = Slash
               /\ \A k \in 1..Len(item.target) : item.target[k] \notin InlineForbidden
            THEN {item.target} ELSE {}
      [] OTHER -> {}

\* C16 as stated: the set returned is made of the targets of the inline
\* paths between backticks, of the links, of the img tags and of the
\* filePath attributes, and of nothing else.
C16_FourSyntaxes ==
    Extracted =>
        doc_references =
            UNION {FromFourSyntaxes(doc_items[k]) : k \in 1..Len(doc_items)}

\* A construct of the text as the construct of a document of the validation
AsContentItem(item) ==
    CASE item.kind = "image" -> Construct("link", item.target)
      [] item.kind = "img_single" -> Construct("img", item.target)
      [] item.kind = "attachment_single" -> Construct("attachment", item.target)
      [] item.kind = "coderef_upper" -> Construct("coderef", item.target)
      [] OTHER -> item

\* C16 as amended: the set returned is made of what the links, the img
\* tags, the filePath attributes and the values behind source:, file: or
\* path: (in any case, unless they begin with http:// or https://) add; an
\* inline path between backticks adds nothing, nor does plain text.
C16_RecognisedSyntaxes ==
    Extracted =>
        /\ doc_references =
              ExtractFileReferences({AsContentItem(doc_items[k]) : k \in 1..Len(doc_items)})
        /\ \A item \in ItemsOfKind({"backtick", "plain"}) :
              item.target # OtherPath => FromFirstLine = {}
        /\ \A item \in ItemsOfKind({"coderef", "coderef_upper"}) :
              (~StartsWith(item.target, HttpPrefix) /\ ~StartsWith(item.target, HttpsPrefix))
                  => item.target \in doc_references

\* File:a/b above an inline path c/d between backticks: a/b alone is returned.
C16_Witness ==
    /\ Extracted
    /\ doc_items = <<Construct("coderef_upper", TargetPath),
                     Construct("backtick", OtherPath)>>
    /\ doc_references = {TargetPath}

\* validate_content_length has returned.
LengthChecked == cl_pc = "done"

\* The findings of a rule among the logRule calls of validate_content_length
LengthFindings(rule) == {i \in 1..Len(cl_emitted) : cl_emitted[i].rule = rule}

\* The number of lines of the content: one more than its newline characters
NumberOfLines == Cardinality({k \in DOMAIN cl_content : cl_content[k] = "\n"}) + 1

\* C17: the line count being the number of newline characters plus one,
\* there is one ERROR too-many-lines, counted as one error, exactly when
\* the line count is greater than max_lines (501 lines against 500, not
\* 500 lines); one WARNING too-complex-content, counted as one warning,
\* exactly when the token count is greater than max_tokens, and one INFO
\* content-complexity otherwise; each of the two whatever the other.
C17_ContentLength ==
    LengthChecked =>
        LET many == IF NumberOfLines > cl_max_lines THEN 1 ELSE 0
            complex == IF cl_token_count > cl_max_tokens THEN 1 ELSE 0
        IN  /\ Cardinality(LengthFindings("too-many-lines")) = many
            /\ \A i \in LengthFindings("too-many-lines") : cl_emitted[i].level = "ERROR"
            /\ Cardinality(LengthFindings("too-complex-content")) = complex
            /\ \A i \in LengthFindings("too-complex-content") :
                  cl_emitted[i].level = "WARNING"
            /\ Cardinality(LengthFindings("content-complexity")) = 1 - complex
            /\ \A i \in LengthFindings("content-complexity") : cl_emitted[i].level = "INFO"
            /\ cl_result = <<complex, many>>
            /\ Len(cl_emitted) = 1 + many
            /\ (cl_max_lines = MaxAgentContentLinesCount
                  /\ cl_content = Newlines(MaxAgentContentLinesCount)) => many = 1
            /\ (cl_max_lines = MaxAgentContentLinesCount
                  /\ cl_content = Newlines(MaxAgentContentLinesCount - 1)) => many = 0

\* 501 lines against 500 and 2 tokens against 1: both findings, (1, 1).
C17_Witness ==
    /\ LengthChecked
    /\ cl_max_lines = MaxAgentContentLinesCount
    /\ cl_content = Newlines(MaxAgentContentLinesCount)
    /\ cl_token_count > cl_max_tokens
    /\ cl_result = <<1, 1>>
    /\ Len(cl_emitted) = 2

\* validate_code_snippets has returned, the file having been read.
SnippetsChecked == cs_pc = "done" /\ cs_file = "ok"

\* The number of lines of the parts before part k
LinesBefore[k \in 0..MaxParts] ==
    IF k = 0 THEN 0 ELSE LinesBefore[k - 1] + Len(PartLines(cs_parts[k]))

\* The lines of a block that hold something
NonEmptyLinesOf(part) ==
    Cardinality({j \in 1..Len(part.body) : part.body[j] # BlankLine})

\* The fenced blocks with more lines that hold something than max_lines
LargeBlocks ==
    {k \in 1..Len(cs_parts) :
        cs_parts[k].kind = "block" /\ NonEmptyLinesOf(cs_parts[k]) > cs_max_lines}

SnippetFindings ==
    {i \in 1..Len(cs_emitted) : cs_emitted[i].rule = "code-snippet-too-large"}

\* C18: there is one WARNING code-snippet-too-large, counted as one
\* warning and no error, for each fenced block with more non-empty lines
\* than max_lines, none for another block, the blank lines of a block not
\* being counted, and its line number is the line of the opening fence.
C18_OneWarningPerLargeBlock ==
    SnippetsChecked =>
        /\ Cardinality(SnippetFindings) = Cardinality(LargeBlocks)
        /\ Len(cs_emitted) = Cardinality(LargeBlocks)
        /\ \A i \in SnippetFindings : cs_emitted[i].level = "WARNING"
        /\ {cs_emitted[i].line : i \in SnippetFindings}
              = {<<LinesBefore[k - 1] + 1>> : k \in LargeBlocks}
        /\ cs_result = <<Cardinality(LargeBlocks), 0>>

\* validate_content_file_references has returned.
ReferencesChecked == fr_pc = "done"

\* The inline paths of the content: the links between single backticks that
\* hold a slash and none of the characters an inline path may not hold
InlinePaths ==
    LET matches == InlineMatchesFrom(fr_content, 1)
        links == {SubSeq(fr_content, matches[k].first, matches[k].last) :
                     k \in 1..Len(matches)}
    IN  {l \in links :
            /\ \E k \in 1..Len(l) : l[k] = Slash
            /\ \A k \in 1..Len(l) : l[k] \notin InlineForbidden}

\* The inline paths of the spans, when something stands between the spans
SpanPaths ==
    {fr_items[k].text : k \in {j \in 1..Len(fr_items) :
        /\ fr_items[j].kind = "single"
        /\ \E c \in 1..Len(fr_items[j].text) : fr_items[j].text[c] = Slash
        /\ \A c \in 1..Len(fr_items[j].text) :
              fr_items[j].text[c] \notin InlineForbidden}}

\* The inline paths that exist under none of the base directories
MissingPaths == {l \in InlinePaths : ~ExistsInBaseDirs(fr_base_dirs, l)}

FileLinkNotFound ==
    {i \in 1..Len(fr_emitted) : fr_emitted[i].rule = "file-link-not-found"}

\* C19: each distinct inline path of the content is checked once: there
\* is one ERROR file-link-not-found, counted as one error, for each
\* distinct path that exists under none of the base directories, and none
\* for a path that exists under one of them or for an occurrence of a path
\* already checked; every other call of logRule is the DEBUG trace of a
\* match.
C19_DistinctLinksCheckedOnce ==
    ReferencesChecked =>
        /\ {fr_checked[k] : k \in 1..Len(fr_checked)} = InlinePaths
        /\ Len(fr_checked) = Cardinality(InlinePaths)
        /\ fr_separator # <<>> => InlinePaths = SpanPaths
        /\ Cardinality(FileLinkNotFound) = Cardinality(MissingPaths)
        /\ \A i \in 1..Len(fr_emitted) :
              IF i \in FileLinkNotFound
              THEN fr_emitted[i].level = "ERROR"
              ELSE fr_emitted[i].level = "DEBUG" /\ fr_emitted[i].rule = "file-link-found"
        /\ fr_result = <<0, Cardinality(MissingPaths)>>

\* A missing path written twice around a path that exists: two links
\* checked, one error.
C19_Witness ==
    /\ ReferencesChecked
    /\ fr_items = <<Span("single", LinkMissing), Span("single", LinkSubGuide),
                    Span("single", LinkMissing)>>
    /\ fr_base_dirs = <<DocsDir, ProjectDir>>
    /\ fr_checked = <<LinkMissing, LinkSubGuide>>
    /\ Cardinality(FileLinkNotFound) = 1
    /\ fr_result = <<0, 1>>

IsPrefixOf(s, t) == Len(s) <= Len(t) /\ SubSeq(t, 1, Len(s)) = s

\* C20: within a run, whatever the format configured, a logRule call
\* leaves the findings buffered before it where they were and adds at most
\* one after them; only the caller's flush takes findings out of the list,
\* after printing them, and it leaves the list empty; the findings printed
\* and buffered, taken together, only ever grow at the end.
C20_AppendOnly ==
    [][ /\ lg_op' = "logRule" =>
             /\ IsPrefixOf(lg_messages, lg_messages')
             /\ Len(lg_messages') <= Len(lg_messages) + 1
        /\ lg_op' = "flush" =>
             /\ lg_messages' = <<>>
             /\ lg_printed' = lg_printed \o lg_messages
        /\ ~IsPrefixOf(lg_messages, lg_messages') => lg_op' = "flush"
        /\ IsPrefixOf(lg_printed \o lg_messages, lg_printed' \o lg_messages')
      ]_vars

\* Two findings buffered under file-digest and then flushed by the caller.
C20_Witness ==
    /\ lg_pc = "reported"
    /\ lg_format = "file-digest"
    /\ lg_op = "flush"
    /\ lg_messages = <<>>
    /\ Len(lg_printed) = 2
    /\ lg_printed[1] # lg_printed[2]

\* C21: a logRule call appends its finding to the buffer exactly when the
\* level of the finding is at least as severe as the level of the logger
\* (its value is not above it); a call that is filtered leaves the buffer
\* and what was printed as they were, and a log call never touches them.
C21_LevelFilter ==
    [][ /\ lg_op' = "logRule" /\ LogLevelValue(lg_arg'.level) <= LogLevelValue(lg_level) =>
             /\ lg_printed' \o lg_messages' = Append(lg_printed \o lg_messages, lg_arg')
             /\ lg_format # "logfmt" => lg_messages' = Append(lg_messages, lg_arg')
        /\ lg_op' = "logRule" /\ LogLevelValue(lg_arg'.level) > LogLevelValue(lg_level) =>
             /\ lg_messages' = lg_messages
             /\ lg_printed' = lg_printed
        /\ lg_op' = "log" =>
             /\ lg_messages' = lg_messages
             /\ lg_printed' = lg_printed
      ]_vars

\* At level WARNING, an INFO finding was dropped, then a WARNING finding was
\* buffered, then a general ERROR message was logged.
C21_Witness ==
    /\ lg_pc = "validating"
    /\ lg_level = "WARNING"
    /\ lg_format = "yaml"
    /\ lg_calls = 3
    /\ lg_op = "log"
    /\ lg_arg = RuleMessage("ERROR", GeneralMessage)
    /\ lg_messages = <<RuleMessage("WARNING", "rule-a")>>
    /\ lg_accepted = lg_messages

\* C26: whatever the order of the logRule, set_format, set_level and flush
\* calls, the findings given to a formatter followed by the findings still
\* buffered are the accepted findings, each once and in the order of the
\* calls; after a flush the buffer is empty and every accepted finding has
\* been given to a formatter exactly once.
C26_HandedOnce ==
    /\ lg_printed \o lg_messages = lg_accepted
    /\ lg_op = "flush" => lg_messages = <<>> /\ lg_printed = lg_accepted

\* A finding buffered under file-digest, the format changed to logfmt, a
\* second finding logged, and a last flush: both handed over, once each.
C26_Witness ==
    /\ lg_pc = "api"
    /\ lg_op = "flush"
    /\ lg_format = "logfmt"
    /\ lg_calls = 4
    /\ lg_accepted = <<RuleMessage("ERROR", "rule-a"), RuleMessage("INFO", "rule-b")>>
    /\ lg_printed = lg_accepted
    /\ lg_messages = <<>>

\* C22: validate_content_file_references, whatever the content, the file
\* and the project directory, does not raise: every turn of its loop ends
\* in a finding or in nothing, and the call returns its pair.
C22_NeverRaises == fr_pc # "raised"

\* The level the configuration asks for: one of ERROR, WARNING and INFO,
\* given by name or as a member of LogLevel; anything else is the default.
ConfiguredLevel(arg) ==
    IF arg.value \in {"ERROR", "WARNING", "INFO"} THEN arg.value ELSE "WARNING"

\* C24: when AGENTS.md is missing from the project root the validator emits
\* exactly one agents-file-missing finding at the configured level and
\* returns (0, 1) for ERROR, (1, 0) for WARNING and (0, 0) for INFO; when the
\* file exists it emits nothing and returns (0, 0).
C24_AgentsFileMissing ==
    ag_pc = "done" =>
        IF ag_exists
        THEN ag_emitted = <<>> /\ ag_result = <<0, 0>>
        ELSE /\ Len(ag_emitted) = 1
             /\ ag_emitted[1].rule = "agents-file-missing"
             /\ ag_emitted[1].level = ConfiguredLevel(ag_arg)
             /\ ag_result = CASE ConfiguredLevel(ag_arg) = "ERROR" -> <<0, 1>>
                              [] ConfiguredLevel(ag_arg) = "WARNING" -> <<1, 0>>
                              [] OTHER -> <<0, 0>>

\* C23: a run that reaches the end of main exits with status 0 exactly when
\* the validators of the run counted no error and no more warnings than
\* max_warnings allows; an ERROR finding of any validator makes the status 1.
C23_ExitStatus ==
    mn_pc = "exited" =>
        /\ mn_status = 0 <=> (mn_error_findings = 0
                              /\ WithinBudget(mn_warning_findings, mn_max_warnings))
        /\ mn_error_findings > 0 => mn_status = 1
        /\ mn_total_errors = mn_error_findings
        /\ mn_total_warnings = mn_warning_findings

\* An ERROR finding of the last validator alone fails a run with no budget.
C23_Witness ==
    /\ mn_pc = "exited"
    /\ mn_error_findings = 1
    /\ mn_warning_findings > 0
    /\ ~mn_max_warnings.finite
    /\ mn_status = 1

\* The findings of one severity among those emitted
FindingsOfLevel(lvl) == {i \in 1..Len(emitted) : emitted[i].level = lvl}

\* C25: the pair validate_unreferenced_files returns holds the number of
\* WARNING findings and the number of ERROR findings the call emitted.
C25_CountsMatchFindings ==
    Returned =>
        result = <<Cardinality(FindingsOfLevel("WARNING")),
                   Cardinality(FindingsOfLevel("ERROR"))>>

\* The scanned files that have an unreferenced-resource-file finding
ReportedAsUnreferenced ==
    {f \in ScannedFiles :
        /\ IsRelativeTo(f, relative_to)
        /\ \E i \in AllUnreferencedFindings :
              emitted[i].file = PathStr(RelativeTo(f, relative_to))}

\* The pair returned for n reports at a level
TotalsAt(lvl, n) ==
    CASE lvl = "ERROR" -> <<0, n>>
      [] lvl = "WARNING" -> <<n, 0>>
      [] OTHER -> <<0, 0>>

\* C27: whatever relative_to is, the files reported as unreferenced are the
\* scanned files no reference matches, and the pair returned counts them:
\* neither depends on relative_to.
C27_BaseIndependent ==
    Returned =>
        /\ ReportedAsUnreferenced = Unmatched
        /\ result = TotalsAt(level, Cardinality(Unmatched))

\* A reference denotes the project-relative path of a file: it is that
\* path, or it ends with a slash followed by that path.
DenotedBy(f) ==
    \E ref \in all_referenced_files :
        \/ ref = ProjectRelative(f)
        \/ IsEnding(<<Slash>> \o ProjectRelative(f), ref)

\* C28: when the validation has returned, every scanned resource file whose
\* project-relative path no reference denotes, the ending being taken at a
\* segment boundary, has its unreferenced-resource-file finding.
C28_AnchoredSuffix ==
    Returned =>
        \A f \in ScannedFiles :
            ~DenotedBy(f) => Cardinality(UnreferencedFindings(f)) = 1

\* The number of lines of the first k parts of the content
RECURSIVE LinesOfParts(_, _)
LinesOfParts(parts, k) ==
    IF k = 0 THEN 0 ELSE LinesOfParts(parts, k - 1) + Len(PartLines(parts[k]))

\* The lines of the opening fences that have their closing fence, the
\* fences being paired in the order of the document
PairedOpeningLines ==
    {LinesOfParts(cs_parts, k - 1) + 1 :
        k \in {j \in 1..Len(cs_parts) : cs_parts[j].kind = "block"}}

\* C29: every code-snippet-too-large finding stands at the opening fence of
\* a block whose closing fence follows, the fences being paired in document
\* order whatever the language tag, and that block has more non-empty
\* lines than max_lines: prose between two blocks and a fence that is never
\* closed give no finding.
C29_OnlyPairedFences ==
    SnippetsChecked =>
        \A i \in SnippetFindings :
            /\ cs_emitted[i].line \in {<<n>> : n \in PairedOpeningLines}
            /\ \E k \in 1..Len(cs_parts) :
                  /\ cs_parts[k].kind = "block"
                  /\ cs_emitted[i].line = <<LinesOfParts(cs_parts, k - 1) + 1>>
                  /\ NonEmptyLinesOf(cs_parts[k]) > cs_max_lines

\* The line of the content a span stands on: the spans are one per line
\* when a newline separates them, and all on the first line otherwise
ContentLineOfSpan(j) == IF fr_separator = <<"\n">> THEN j ELSE 1

\* The first span that holds a link
FirstSpanOf(link) ==
    CHOOSE j \in 1..Len(fr_items) :
        /\ fr_items[j].kind = "single" /\ fr_items[j].text = link
        /\ \A h \in 1..(j - 1) : ~(fr_items[h].kind = "single" /\ fr_items[h].text = link)

\* C30: the content starting at line L of the file (content_start_line_number,
\* 1 for a file without front matter), the file-link-not-found finding of a
\* link on the k-th line of the content carries the line L + k - 1.
C30_LineInFile ==
    (ReferencesChecked /\ fr_separator # <<>>) =>
        {fr_emitted[i].line : i \in FileLinkNotFound}
            = {<<fr_start_line + ContentLineOfSpan(FirstSpanOf(l)) - 1>> : l \in MissingPaths}

====
